---- MODULE Spec2Model ----
(***************************************************************************)
(* Verification model of the AES67 network audio engine.                   *)
(*                                                                         *)
(* Components modelled, each with its own specification:                   *)
(*   SpecRouter   StreamChannelMapper (the 128-slot channel router)        *)
(*   SpecRing     SPSCRingBuffer with a concurrent producer and consumer   *)
(*   SpecManager  StreamManager admission / update / removal of pipelines  *)
(*   SpecTx       RTPTransmitter::transmitLoop                             *)
(*   SpecRx       RTPReceiver::updateStats sequence accounting             *)
(*   SpecIO       AES67IOHandler::processInput                             *)
(*   SpecDecode, SpecReceiver (SpecReceiverLive with fairness)             *)
(*                RTPReceiver decoding, start / stop / receiveLoop         *)
(*   SpecTxWrap, SpecTxConfig                                              *)
(*                RTPTransmitter over long runs, and its construction      *)
(*   SpecManagerRate  StreamManager with setDeviceSampleRate               *)
(*   SpecSap (SpecSapLive), SpecSapWire                                    *)
(*                SAPListener, and its parsing of datagrams                *)
(*   SpecBlocks, SpecValidation  router placement and mapping validation   *)
(* A specification leaves the variables of the other components at their   *)
(* initial values.                                                         *)
(***************************************************************************)
EXTENDS Integers, Sequences, FiniteSets, TLC

VARIABLES
    \* StreamChannelMapper (also StreamManager::mapper_)
    deviceChannelOwners_,   \* std::array<StreamID,128>: device channel -> owner id
    mappings_,              \* std::map<StreamID,ChannelMapping>
    routerOp,               \* last router call: [op, ret]
    \* SPSCRingBuffer<T> with its producer and consumer threads
    buffer_,                \* std::vector<T> of capacity_ slots
    writeIndex_,            \* std::atomic<size_t>
    readIndex_,             \* std::atomic<size_t>
    prod,                   \* producer thread inside write(): [pc, writeIdx, toWrite, i]
    cons,                   \* consumer thread inside read(): [pc, readIdx, toRead, i, data]
    written,                \* every element accepted by completed write calls, in order
    readOut,                \* every element returned by completed read calls, in order
    \* StreamManager (its mapper_ is deviceChannelOwners_ / mappings_ above)
    streams_,               \* std::map<StreamID,ManagedStream>
    currentDeviceSampleRate_,
    osLive,                 \* worker threads and sockets alive in the process
    mgrOp,                  \* last manager call: [op, ok]
    mgrTrace,               \* what the last manager call did, in program order:
                            \* "lock" / "unlock" of streamsMutex_, pipeline
                            \* "start" / "stop", observer notifications
    apiCalls,               \* manager calls made so far
    \* RTPTransmitter and the device output rings it reads
    txRunning,              \* running_
    sequenceNumber_,        \* uint16_t
    timestamp_,             \* uint32_t, as [hi, lo]
    txStats,                \* stats_: [overruns, bytesSent, malformedPackets]
    txEncoding,             \* sdp_.encoding
    outRing,                \* samples held by the output ring of each stream channel
    txWire,                 \* packets handed to the socket one after the other
                            \* since start(): [sequenceNumber, timestamp]
    txIntervals,            \* packet intervals elapsed while running
    \* RTPReceiver packet accounting
    rxStats,                \* stats_: [packetsReceived, packetsLost, bytesReceived,
                            \*          malformedPackets]
    lastSequenceNumber_,    \* uint16_t
    connected_,
    rxSeqs,                 \* sequence numbers of the packets accounted since the
                            \* statistics were last cleared, in arrival order
    \* AES67IOHandler input path
    inputBuffers_,          \* frames held by each of the 128 input rings
    inputUnderruns_,        \* std::atomic<uint64_t>
    ioCallbacks,            \* OnReadClientInput callbacks completed
    ioLast,                 \* the last callback: [frameCount, channelCount, shortReads]
    \* SAPListener with its listen thread and socket
    sapRunning,             \* running_
    announcements_,         \* std::map<uint32_t,SAPAnnouncement>: hash -> minutes
                            \* elapsed since lastSeen
    lastCleanup_,           \* minutes elapsed since the time point lastCleanup_
    sapNow,                 \* std::chrono::steady_clock::now() in minutes,
                            \* modulo ClockPeriod
    sapSocket,              \* datagrams queued on socket_, not yet received
    sapTrace,               \* what the last listenLoop iteration did, in program
                            \* order: "lock" / "unlock" of announcementsMutex_,
                            \* "discoveryCallback", "deletionCallback"
    sapDeleted,             \* hashes the last iteration's deletionCallback_ got
    \* RTPReceiver: decoding, connection state and the receive thread
    lastPacketTime_,        \* milliseconds elapsed since the time point
                            \* lastPacketTime_
    rxUnderruns,            \* stats_.underruns
    rxLast,                 \* the last packet processPacket took past its size
                            \* checks: [encoding, payloadSize]
    rcvSinceValid,          \* milliseconds elapsed since processPacket last took
                            \* a packet past its checks
    rcvRunning,             \* running_
    rtpSession_,            \* TRUE while rtpSession_ points at an open session
    receiveThread_,         \* "none" (not joinable), "loop" (at the while test),
                            \* "packet" (inside processPacket), "exited"
                            \* (receiveLoop returned, not yet joined)
    rcvCaller,              \* where the controlling thread is: "idle", or inside
                            \* stop() at "join" or "destroy"
    rcvStops,               \* stop() calls returned since the last start()
    rcvJoins,               \* receiveThread_.join() calls since the last start()
    rcvCloses,              \* rtp_session_destroy calls since the last start()
    rcvQuery,               \* isConnected(): [flip, ret], flip changing per call
    rcvFresh,               \* processPacket has not run since the last start()
    \* SAPListener, datagrams byte for byte
    sapLast,                \* the datagram the last recvfrom of listenLoop
                            \* returned, byte for byte, and its sender:
                            \* [flip, dgram, sourceIP], flip changing with
                            \* every datagram
    sapOrigins,             \* hash -> the origin field of the SAPAnnouncement
                            \* that announcements_ holds under the hash
    \* PTPClockManager and its PTPClock objects
    globalEnabled_,         \* std::atomic<bool>
    clocks_,                \* std::map<int, shared_ptr<PTPClock>>: domain ->
                            \* the clock object (its index in ptpClocks)
    ptpClocks,              \* the PTPClock objects constructed so far, each
                            \* [domain_, running_, locked_, offsetNs_, joinable
                            \* (thread_.joinable()), threads (ptpThread threads
                            \* of the object alive), starting (start() calls
                            \* between their test of running_ and their store),
                            \* stopping (stop() calls waiting in join), pc (the
                            \* position of updateLockStatus)]
    clocksMutex_,           \* who holds the mutex: "free", "remove", "getTime"
    ptpQuery,               \* the last getTimeForDomain call: [flip, pc, domain,
                            \* localTime, ret, clock]
    ptpTerminated,          \* std::terminate was called
    \* SDPParser
    sdpTrip,                \* the last generate / parseString round:
                            \* [session, text, parsed]
    \* StreamManager::addStream(sdp) called from several threads
    \* One stream's rings with the samples in them
    laneRings,              \* device channel of the stream -> the samples its
                            \* ring holds, oldest first, each <<packet, frame>>
    mapLoop,                \* mapChannelsToDevice: [packet (packets entered so
                            \* far), streamChannel (the loop variable, numChannels
                            \* when the call has returned), hadUnderrun]
    laneUnderruns,          \* stats_.underruns counted by mapChannelsToDevice
    laneOut,                \* the last processInput: [callbacks, midCopy (the
                            \* receive thread was inside the channel loop),
                            \* underruns, outputData (channel -> samples)]
    autoSelected,           \* caller -> <<>>, or <<sdp, mapping>> between the
                            \* return of createDefaultMapping and the call of
                            \* addStream(sdp, mapping)
    \* RTPTransmitter construction
    txConfig                \* the descriptor last constructed from and what the
                            \* constructor and transmitLoop derive from it:
                            \* [sampleRate, ptime, numChannels, packetIntervalUs,
                            \*  samplesPerPacket]

routerVars == <<deviceChannelOwners_, mappings_, routerOp>>
ringVars == <<buffer_, writeIndex_, readIndex_, prod, cons, written, readOut>>

mgrVars == <<streams_, currentDeviceSampleRate_, osLive, mgrOp, mgrTrace, apiCalls>>

txVars == <<txRunning, sequenceNumber_, timestamp_, txStats, txEncoding, outRing,
           txWire, txIntervals>>

rxVars == <<rxStats, lastSequenceNumber_, connected_, rxSeqs>>

ioVars == <<inputBuffers_, inputUnderruns_, ioCallbacks, ioLast>>

sapVars == <<sapRunning, announcements_, lastCleanup_, sapNow, sapSocket, sapTrace,
            sapDeleted>>

lifeVars == <<rcvRunning, rtpSession_, receiveThread_, rcvCaller, rcvStops, rcvJoins,
             rcvCloses, rcvQuery, rcvFresh>>
cfgVars == <<txConfig>>
wireVars == <<sapLast, sapOrigins>>
ptpVars == <<globalEnabled_, clocks_, ptpClocks, clocksMutex_, ptpQuery, ptpTerminated>>
sdpVars == <<sdpTrip>>
admitVars == <<autoSelected>>
laneVars == <<laneRings, mapLoop, laneUnderruns, laneOut>>
extVars == <<ptpVars, sdpVars, admitVars, laneVars>>
rcvVars == <<lastPacketTime_, rxUnderruns, rxLast, rcvSinceValid, lifeVars>>

vars == <<routerVars, ringVars, mgrVars, txVars, rxVars, ioVars, sapVars, rcvVars, cfgVars, wireVars, extVars>>

\* What each component leaves alone
notRouter == <<ringVars, mgrVars, txVars, rxVars, ioVars, sapVars, rcvVars, cfgVars, wireVars, extVars>>
notRing == <<routerVars, mgrVars, txVars, rxVars, ioVars, sapVars, rcvVars, cfgVars, wireVars, extVars>>
notManager == <<ringVars, routerOp, txVars, rxVars, ioVars, sapVars, rcvVars, cfgVars, wireVars, extVars>>
notTx == <<routerVars, ringVars, mgrVars, rxVars, ioVars, sapVars, rcvVars, cfgVars, wireVars, extVars>>
notRx == <<routerVars, ringVars, mgrVars, txVars, ioVars, sapVars, rcvVars, cfgVars, wireVars, extVars>>
notIO == <<routerVars, ringVars, mgrVars, txVars, rxVars, sapVars, rcvVars, cfgVars, wireVars, extVars>>
notSap == <<routerVars, ringVars, mgrVars, txVars, rxVars, ioVars, rcvVars, cfgVars, wireVars, extVars>>
\* What the receive path leaves alone: it writes the input rings and stats_
notReceive == <<routerVars, ringVars, mgrVars, txVars, sapVars, cfgVars, wireVars, extVars>>

(***************************************************************************)
(* Bounds of the model                                                     *)
(***************************************************************************)
NumStreams == 2          \* stream ids 1..NumStreams
MaxCount == 2            \* channel counts offered to the router: 0..MaxCount
RingCapacityArg == 3     \* the capacity a ring is constructed with
MaxWritten == 8          \* elements offered to a ring over a behaviour
MaxCalls == 3            \* manager calls over a behaviour
TxChannels == 2          \* sdp_.numChannels of the transmitter
SamplesPerPacket == 2    \* sdp_.sampleRate / 1000 of the transmitter
MaxIntervals == 4        \* packet intervals over a behaviour
MaxPackets == 4          \* packets a receiver is handed between two resets
InputRingFrames == 2     \* frames an input ring can hold
MaxCallbacks == 3        \* input callbacks over a behaviour
NumHashes == 1           \* SAP message id hashes 1..NumHashes
ClockPeriod == 2         \* the steady clock reading is kept modulo ClockPeriod
MaxQueued == 1           \* datagrams the SAP socket queues
NumBlockStreams == 3     \* stream ids 1..NumBlockStreams placed in whole blocks
BlockChannels == 8       \* channels of a block

(***************************************************************************)
(* StreamID                                                                *)
(***************************************************************************)
NullID == 0              \* StreamID::null(), the all-zero id
StreamIDs == 1..NumStreams

(***************************************************************************)
(* ChannelMapping                                                          *)
(***************************************************************************)
kMaxDeviceChannels == 128
DeviceChannels == 0..(kMaxDeviceChannels - 1)

ChannelMapping(id, scc, start, dcc, cmap) ==
    [streamID |-> id, streamChannelCount |-> scc,
     deviceChannelStart |-> start, deviceChannelCount |-> dcc,
     channelMap |-> cmap]

getValidationError(m) ==
    IF m.streamID = NullID THEN "Stream ID is null"
    ELSE IF m.streamChannelCount = 0 THEN "Stream channel count must be non-zero"
    ELSE IF m.deviceChannelCount = 0 THEN "Device channel count must be non-zero"
    ELSE IF m.deviceChannelStart >= kMaxDeviceChannels
        THEN "Device channel start out of range (0-127)"
    ELSE IF m.deviceChannelStart + m.deviceChannelCount > kMaxDeviceChannels
        THEN "Device channel range exceeds maximum (128 channels)"
    ELSE IF m.channelMap # <<>> /\ Len(m.channelMap) # m.streamChannelCount
        THEN "Custom channel map size doesn't match stream channel count"
    ELSE ""

\* ChannelMapping::isValid(): return !getValidationError().empty()
isValid(m) == ~(getValidationError(m) = "")

containsDeviceChannel(m, deviceCh) ==
    IF m.channelMap = <<>>
    THEN deviceCh >= m.deviceChannelStart
         /\ deviceCh < m.deviceChannelStart + m.deviceChannelCount
    ELSE \E i \in 1..Len(m.channelMap) : m.channelMap[i] = deviceCh

(***************************************************************************)
(* StreamChannelMapper: private helpers                                    *)
(***************************************************************************)
validateMapping(m) == getValidationError(m) = ""

\* Only the sequential range [start, start+count) is inspected, whatever
\* channelMap holds.
isOverlapWithStream(own, m, excludeStream) ==
    \E i \in 0..(m.deviceChannelCount - 1) :
        LET deviceCh == m.deviceChannelStart + i
        IN  own[deviceCh] # NullID /\ own[deviceCh] # excludeStream

updateDeviceChannelOwners(own, m) ==
    IF m.channelMap = <<>>
    THEN [k \in DeviceChannels |->
            IF k >= m.deviceChannelStart
               /\ k < m.deviceChannelStart + m.deviceChannelCount
            THEN m.streamID ELSE own[k]]
    ELSE [k \in DeviceChannels |->
            IF \E i \in 1..Len(m.channelMap) : m.channelMap[i] = k
            THEN m.streamID ELSE own[k]]

\* The indexes of deviceChannelOwners_ that isOverlapWithStream reads: the
\* loop stops at the first overlap, and nothing is known of it after a read
\* outside the array
OverlapIndexes(own, m, excludeStream) ==
    LET deviceCh(i) == m.deviceChannelStart + i
        Stops(i) ==
            \/ deviceCh(i) \notin DeviceChannels
            \/ own[deviceCh(i)] # NullID /\ own[deviceCh(i)] # excludeStream
    IN  { deviceCh(i) : i \in { n \in 0..(m.deviceChannelCount - 1) :
                                  \A j \in 0..(n - 1) : ~Stops(j) } }

\* The indexes of deviceChannelOwners_ that updateDeviceChannelOwners writes
StampIndexes(m) ==
    IF m.channelMap = <<>>
    THEN { m.deviceChannelStart + i : i \in 0..(m.deviceChannelCount - 1) }
    ELSE { m.channelMap[i] : i \in 1..Len(m.channelMap) } \cap DeviceChannels

\* The indexes addMapping (excludeStream null) and updateMapping
\* (excludeStream the mapping's id) read and write
MappingIndexes(own, m, excludeStream) ==
    IF ~validateMapping(m) THEN {}
    ELSE IF isOverlapWithStream(own, m, excludeStream)
    THEN OverlapIndexes(own, m, excludeStream)
    ELSE OverlapIndexes(own, m, excludeStream) \cup StampIndexes(m)

\* A variant of clearDeviceChannelOwners that releases every slot
clearDeviceChannelOwners_All(own, id) == [k \in DeviceChannels |-> NullID]

clearDeviceChannelOwners(own, id) ==
    [k \in DeviceChannels |-> IF own[k] = id THEN NullID ELSE own[k]]

MapPut(maps, id, m) ==
    [i \in (DOMAIN maps) \cup {id} |-> IF i = id THEN m ELSE maps[i]]

MapErase(maps, id) == [i \in (DOMAIN maps) \ {id} |-> maps[i]]

(***************************************************************************)
(* StreamChannelMapper: public operations, as functions of the router      *)
(* state (own, maps); each returns the call's result and the new state.    *)
(***************************************************************************)
RouterResult(ret, err, own, maps) ==
    [ret |-> ret, err |-> err, owners |-> own, mappings |-> maps]

\* A variant of addMapping that stamps the owners before it tests for overlap.
addMapping_StampFirst(own, maps, m) ==
    IF ~validateMapping(m)
    THEN RouterResult(FALSE, getValidationError(m), own, maps)
    ELSE IF isOverlapWithStream(own, m, NullID)
    THEN RouterResult(FALSE, "overlap", updateDeviceChannelOwners(own, m), maps)
    ELSE RouterResult(TRUE, "", updateDeviceChannelOwners(own, m),
                      MapPut(maps, m.streamID, m))

addMapping(own, maps, m) ==
    IF ~validateMapping(m)
    THEN RouterResult(FALSE, getValidationError(m), own, maps)
    ELSE IF isOverlapWithStream(own, m, NullID)
    THEN RouterResult(FALSE, "overlap", own, maps)
    ELSE RouterResult(TRUE, "", updateDeviceChannelOwners(own, m),
                      MapPut(maps, m.streamID, m))

removeMapping(own, maps, id) ==
    IF id \notin DOMAIN maps
    THEN RouterResult(FALSE, "not found", own, maps)
    ELSE RouterResult(TRUE, "", clearDeviceChannelOwners(own, id),
                      MapErase(maps, id))

updateMapping(own, maps, m) ==
    IF ~validateMapping(m)
    THEN RouterResult(FALSE, getValidationError(m), own, maps)
    ELSE IF isOverlapWithStream(own, m, m.streamID)
    THEN RouterResult(FALSE, "overlap", own, maps)
    ELSE RouterResult(TRUE, "",
            updateDeviceChannelOwners(
                clearDeviceChannelOwners(own, m.streamID), m),
            MapPut(maps, m.streamID, m))

clearAll(own, maps) ==
    RouterResult(TRUE, "", [k \in DeviceChannels |-> NullID], <<>>)

(***************************************************************************)
(* Inputs offered to the router                                            *)
(***************************************************************************)
StartChoices == {0, 1, kMaxDeviceChannels - 1, kMaxDeviceChannels}
\* Sequential mappings carry D = C (section 3 of the data model).  The custom
\* mappings occupy the last sequential slot and route their stream channels
\* elsewhere; the next has a channelMap whose size is not the channel count and
\* the last one a channelMap that names one device channel for every stream
\* channel.
MappingInputs ==
    { ChannelMapping(id, c, s, c, <<>>) :
        id \in {NullID} \cup StreamIDs, c \in 0..MaxCount, s \in StartChoices }
    \cup
    { ChannelMapping(id, 1, kMaxDeviceChannels - 1, 1, <<0>>) : id \in StreamIDs }
    \cup
    { ChannelMapping(id, MaxCount + 1, 0, 1, <<0>>) : id \in StreamIDs }
    \cup
    { ChannelMapping(id, MaxCount, 0, MaxCount, [i \in 1..MaxCount |-> 1]) :
        id \in StreamIDs }

(***************************************************************************)
(* Router specification                                                    *)
(***************************************************************************)
RouterInit ==
    /\ deviceChannelOwners_ = [k \in DeviceChannels |-> NullID]
    /\ mappings_ = <<>>
    /\ routerOp = [op |-> "init", ret |-> TRUE]

AddMapping ==
    \E m \in MappingInputs :
        LET r == addMapping(deviceChannelOwners_, mappings_, m)
        IN  /\ deviceChannelOwners_' = r.owners
            /\ mappings_' = r.mappings
            /\ routerOp' = [op |-> "add", ret |-> r.ret]
            /\ UNCHANGED notRouter

RemoveMapping ==
    \E id \in {NullID} \cup StreamIDs :
        LET r == removeMapping(deviceChannelOwners_, mappings_, id)
        IN  /\ deviceChannelOwners_' = r.owners
            /\ mappings_' = r.mappings
            /\ routerOp' = [op |-> "remove", ret |-> r.ret, id |-> id]
            /\ UNCHANGED notRouter

UpdateMapping ==
    \E m \in MappingInputs :
        LET r == updateMapping(deviceChannelOwners_, mappings_, m)
        IN  /\ deviceChannelOwners_' = r.owners
            /\ mappings_' = r.mappings
            /\ routerOp' = [op |-> "update", ret |-> r.ret]
            /\ UNCHANGED notRouter

ClearAll ==
    LET r == clearAll(deviceChannelOwners_, mappings_)
    IN  /\ deviceChannelOwners_' = r.owners
        /\ mappings_' = r.mappings
        /\ routerOp' = [op |-> "clear", ret |-> r.ret]
        /\ UNCHANGED notRouter

RouterNext == AddMapping \/ RemoveMapping \/ UpdateMapping \/ ClearAll

\* addMapping, with the indexes of deviceChannelOwners_ it touched recorded
AddMappingIndexed ==
    \E m \in MappingInputs :
        LET r == addMapping(deviceChannelOwners_, mappings_, m)
        IN  /\ deviceChannelOwners_' = r.owners
            /\ mappings_' = r.mappings
            /\ routerOp' = [op |-> "add", ret |-> r.ret,
                            indexes |-> MappingIndexes(deviceChannelOwners_, m, NullID)]
            /\ UNCHANGED notRouter

\* updateMapping, with the indexes it touched recorded
UpdateMappingIndexed ==
    \E m \in MappingInputs :
        LET r == updateMapping(deviceChannelOwners_, mappings_, m)
        IN  /\ deviceChannelOwners_' = r.owners
            /\ mappings_' = r.mappings
            /\ routerOp' = [op |-> "update", ret |-> r.ret,
                            indexes |-> MappingIndexes(deviceChannelOwners_, m, m.streamID)]
            /\ UNCHANGED notRouter

\* hasOverlap(mapping): isOverlapWithStream(mapping, mapping.streamID) under
\* the lock, on the mapping as the caller passed it.  What a read outside the
\* array returns is not defined, so the result is then either
HasOverlap ==
    \E m \in MappingInputs, undefined \in BOOLEAN :
        LET indexes == OverlapIndexes(deviceChannelOwners_, m, m.streamID)
        IN  /\ indexes \subseteq DeviceChannels => ~undefined
            /\ routerOp' =
                  [op |-> "hasOverlap",
                   ret |-> IF indexes \subseteq DeviceChannels
                           THEN \E k \in indexes :
                                   /\ deviceChannelOwners_[k] # NullID
                                   /\ deviceChannelOwners_[k] # m.streamID
                           ELSE undefined,
                   indexes |-> indexes]
            /\ UNCHANGED <<deviceChannelOwners_, mappings_, notRouter>>

\* getOverlappingStreams(mapping): every slot of the range is read; ret holds
\* the owners found in the slots that exist
GetOverlappingStreams ==
    \E m \in MappingInputs :
        LET indexes == { m.deviceChannelStart + i : i \in 0..(m.deviceChannelCount - 1) }
        IN  /\ routerOp' =
                  [op |-> "getOverlappingStreams",
                   ret |-> { deviceChannelOwners_[k] : k \in indexes \cap DeviceChannels }
                           \ {NullID, m.streamID},
                   indexes |-> indexes]
            /\ UNCHANGED <<deviceChannelOwners_, mappings_, notRouter>>

\* getStreamForDeviceChannel(deviceCh): NullID stands for std::nullopt
GetStreamForDeviceChannel ==
    \E deviceCh \in {-1} \cup StartChoices :
        /\ routerOp' =
              [op |-> "getStreamForDeviceChannel",
               ret |-> IF deviceCh < 0 \/ deviceCh >= kMaxDeviceChannels THEN NullID
                       ELSE deviceChannelOwners_[deviceCh],
               indexes |-> IF deviceCh < 0 \/ deviceCh >= kMaxDeviceChannels THEN {}
                           ELSE {deviceCh}]
        /\ UNCHANGED <<deviceChannelOwners_, mappings_, notRouter>>

RouterAccessNext ==
    \/ AddMappingIndexed \/ RemoveMapping \/ UpdateMappingIndexed
    \/ HasOverlap \/ GetOverlappingStreams \/ GetStreamForDeviceChannel

(***************************************************************************)
(* ChannelMapping validation on its own                                    *)
(***************************************************************************)
ValidationStarts ==
    {0, 1, kMaxDeviceChannels - 2, kMaxDeviceChannels - 1, kMaxDeviceChannels}

ValidationInputs ==
    { ChannelMapping(id, scc, s, dcc, cmap) :
        id \in {NullID} \cup StreamIDs, scc \in 0..MaxCount, s \in ValidationStarts,
        dcc \in 0..MaxCount, cmap \in {<<>>, <<0>>} }

\* mapping.isValid(), as PersistedStreamConfig::isValid calls it; the mapping
\* and the answer are recorded in routerOp
IsValidCall ==
    \E m \in ValidationInputs :
        /\ routerOp' = [op |-> "isValid", ret |-> isValid(m), mapping |-> m]
        /\ UNCHANGED <<deviceChannelOwners_, mappings_, notRouter>>

ValidationNext == IsValidCall

(***************************************************************************)
(* Router with whole blocks of channels and automatic placement            *)
(***************************************************************************)
\* The loop of findContiguousBlock, by the runs of free slots it walks:
\* blockStart is set at a free slot when it is unset, that is at slot 0 or
\* after an owned slot, and an owned slot resets blockStart and
\* consecutiveCount, so consecutiveCount grows up to the length of the run.
RunStarts(owned) ==
    { s \in DeviceChannels \ owned : s = 0 \/ (s - 1) \in owned }

\* Slots of the run of free slots that starts at s
RunLength(owned, s) ==
    LET after == { k \in owned : k > s }
    IN  IF after = {} THEN kMaxDeviceChannels - s
        ELSE (CHOOSE k \in after : \A j \in after : k <= j) - s

\* A variant that fails to reset consecutiveCount and blockStart at an owned
\* slot
findContiguousBlock_NoReset(numChannels) ==
    LET free == { k \in DeviceChannels : deviceChannelOwners_[k] = NullID }
        hits == { i \in free :
                    Cardinality({ k \in free : k <= i }) >= numChannels }
    IN  IF hits = {} THEN -1
        ELSE CHOOSE k \in free : \A j \in free : k <= j

\* findContiguousBlock: the loop returns blockStart at the first free slot
\* where consecutiveCount has reached numChannels; -1 stands for std::nullopt
findContiguousBlock(numChannels) ==
    LET owned == { k \in DeviceChannels : deviceChannelOwners_[k] # NullID }
        hits == { s \in RunStarts(owned) : RunLength(owned, s) >= numChannels }
    IN  IF hits = {} THEN -1
        ELSE CHOOSE s \in hits : \A j \in hits : s <= j

BlockIDs == 1..NumBlockStreams

\* A stream takes one block or the whole device
BlockCounts == {BlockChannels, kMaxDeviceChannels}

BlockStarts == {0, BlockChannels, 2 * BlockChannels}

\* Channel counts placement is asked for
BlockRequests == {1, BlockChannels, kMaxDeviceChannels - BlockChannels,
                  kMaxDeviceChannels}

BlockInputs ==
    { ChannelMapping(id, c, s, c, <<>>) :
        id \in BlockIDs, c \in BlockCounts, s \in BlockStarts }

AddBlockMapping ==
    \E m \in BlockInputs :
        LET r == addMapping(deviceChannelOwners_, mappings_, m)
        IN  /\ deviceChannelOwners_' = r.owners
            /\ mappings_' = r.mappings
            /\ routerOp' = [op |-> "add", ret |-> r.ret]
            /\ UNCHANGED notRouter

RemoveBlockMapping ==
    \E id \in BlockIDs :
        LET r == removeMapping(deviceChannelOwners_, mappings_, id)
        IN  /\ deviceChannelOwners_' = r.owners
            /\ mappings_' = r.mappings
            /\ routerOp' = [op |-> "remove", ret |-> r.ret, id |-> id]
            /\ UNCHANGED notRouter

\* createDefaultMapping(streamID, streamName, numChannels): the mapping
\* returned is recorded in routerOp (mapping is meaningful when ret is TRUE)
CreateDefaultMapping ==
    \E id \in BlockIDs, numChannels \in BlockRequests :
        LET blockStart == findContiguousBlock(numChannels)
        IN  /\ routerOp' =
                   [op |-> "createDefaultMapping",
                    ret |-> blockStart # -1,
                    numChannels |-> numChannels,
                    mapping |-> ChannelMapping(id, numChannels, blockStart,
                                               numChannels, <<>>)]
            /\ UNCHANGED <<deviceChannelOwners_, mappings_, notRouter>>

BlocksNext == AddBlockMapping \/ RemoveBlockMapping \/ CreateDefaultMapping

(***************************************************************************)
(* SPSCRingBuffer                                                          *)
(*                                                                         *)
(* write() and read() are modelled as they execute: the loads of the two   *)
(* indices, the memcpy one element at a time, then the release store of    *)
(* the caller's own index.  The acquire load of the other thread's index   *)
(* synchronises with that release store, so every element copied before    *)
(* the store is visible once the index is: the interleaving of these steps *)
(* is the set of executions the C++ memory model allows.                   *)
(***************************************************************************)
capacity_ == RingCapacityArg + 1       \* +1 for full/empty distinction
Slots == 0..(capacity_ - 1)

Min(a, b) == IF a < b THEN a ELSE b

\* A variant of getAvailableRead that is one short once the indices wrapped.
getAvailableRead_WrapOffByOne(readIdx, writeIdx) ==
    IF writeIdx >= readIdx
    THEN writeIdx - readIdx
    ELSE capacity_ - readIdx + writeIdx - 1

getAvailableRead(readIdx, writeIdx) ==
    IF writeIdx >= readIdx
    THEN writeIdx - readIdx
    ELSE capacity_ - readIdx + writeIdx

\* A variant of getAvailableWrite that forgets the reserved element when the
\* read index is ahead of the write index.
getAvailableWrite_NoReserveAhead(writeIdx, readIdx) ==
    IF readIdx > writeIdx
    THEN readIdx - writeIdx
    ELSE capacity_ - writeIdx + readIdx - 1

\* A variant of getAvailableWrite that does not reserve the one element.
getAvailableWrite_NoReserve(writeIdx, readIdx) ==
    IF readIdx > writeIdx
    THEN readIdx - writeIdx
    ELSE capacity_ - writeIdx + readIdx

getAvailableWrite(writeIdx, readIdx) ==
    IF readIdx > writeIdx
    THEN readIdx - writeIdx - 1
    ELSE capacity_ - writeIdx + readIdx - 1

available == getAvailableRead(readIndex_, writeIndex_)
availableWrite == getAvailableWrite(writeIndex_, readIndex_)
capacity == capacity_ - 1
isEmpty == available = 0
isFull == availableWrite = 0

\* The slot the i-th element (from 0) of a transfer of n elements starting at
\* index idx goes to or comes from: first chunk up to the end of the vector,
\* second chunk from slot 0.
ChunkSlot(idx, n, i) ==
    LET firstChunk == Min(n, capacity_ - idx)
    IN  IF i < firstChunk THEN idx + i ELSE i - firstChunk

\* The caller's data: the k-th element ever offered for acceptance is k.
ProducerData(i) == Len(written) + i + 1

ProdIdle == [pc |-> "idle", writeIdx |-> 0, toWrite |-> 0, i |-> 0]
ConsIdle == [pc |-> "idle", readIdx |-> 0, toRead |-> 0, i |-> 0, data |-> <<>>]

RingInit ==
    /\ buffer_ = [k \in Slots |-> 0]
    /\ writeIndex_ = 0
    /\ readIndex_ = 0
    /\ prod = ProdIdle
    /\ cons = ConsIdle
    /\ written = <<>>
    /\ readOut = <<>>

\* write(data, count): lines 56-65
WriteBegin ==
    \E count \in 0..(RingCapacityArg + 1) :
        /\ prod.pc = "idle"
        /\ Len(written) + count <= MaxWritten
        /\ LET writeIdx == writeIndex_
               readIdx == readIndex_
               toWrite == Min(count, getAvailableWrite(writeIdx, readIdx))
           IN  prod' = IF toWrite = 0
                       THEN ProdIdle
                       ELSE [pc |-> "copy", writeIdx |-> writeIdx,
                             toWrite |-> toWrite, i |-> 0]
        /\ UNCHANGED <<buffer_, writeIndex_, readIndex_, cons, written, readOut>>
        /\ UNCHANGED notRing

\* write: the two memcpy calls, lines 68-75
WriteCopy ==
    /\ prod.pc = "copy"
    /\ prod.i < prod.toWrite
    /\ buffer_' = [buffer_ EXCEPT
                     ![ChunkSlot(prod.writeIdx, prod.toWrite, prod.i)] =
                         ProducerData(prod.i)]
    /\ prod' = [prod EXCEPT !.i = prod.i + 1]
    /\ UNCHANGED <<writeIndex_, readIndex_, cons, written, readOut>>
    /\ UNCHANGED notRing

\* write: the release store and the return, lines 79-82
WriteStore ==
    /\ prod.pc = "copy"
    /\ prod.i = prod.toWrite
    /\ writeIndex_' = (prod.writeIdx + prod.toWrite) % capacity_
    /\ written' = written \o [k \in 1..prod.toWrite |-> ProducerData(k - 1)]
    /\ prod' = ProdIdle
    /\ UNCHANGED <<buffer_, readIndex_, cons, readOut>>
    /\ UNCHANGED notRing

\* read(data, count): lines 92-101
ReadBegin ==
    \E count \in 0..(RingCapacityArg + 1) :
        /\ cons.pc = "idle"
        /\ LET readIdx == readIndex_
               writeIdx == writeIndex_
               toRead == Min(count, getAvailableRead(readIdx, writeIdx))
           IN  cons' = IF toRead = 0
                       THEN ConsIdle
                       ELSE [pc |-> "copy", readIdx |-> readIdx,
                             toRead |-> toRead, i |-> 0, data |-> <<>>]
        /\ UNCHANGED <<buffer_, writeIndex_, readIndex_, prod, written, readOut>>
        /\ UNCHANGED notRing

\* read: the two memcpy calls, lines 104-111
ReadCopy ==
    /\ cons.pc = "copy"
    /\ cons.i < cons.toRead
    /\ cons' = [cons EXCEPT
                  !.data = Append(cons.data,
                              buffer_[ChunkSlot(cons.readIdx, cons.toRead, cons.i)]),
                  !.i = cons.i + 1]
    /\ UNCHANGED <<buffer_, writeIndex_, readIndex_, prod, written, readOut>>
    /\ UNCHANGED notRing

\* read: the release store and the return, lines 115-118
ReadStore ==
    /\ cons.pc = "copy"
    /\ cons.i = cons.toRead
    /\ readIndex_' = (cons.readIdx + cons.toRead) % capacity_
    /\ readOut' = readOut \o cons.data
    /\ cons' = ConsIdle
    /\ UNCHANGED <<buffer_, writeIndex_, prod, written>>
    /\ UNCHANGED notRing

RingNext ==
    WriteBegin \/ WriteCopy \/ WriteStore \/ ReadBegin \/ ReadCopy \/ ReadStore

(***************************************************************************)
(* RTPReceiver / RTPTransmitter as the manager sees them: running_, the    *)
(* session or socket, and mapping_.deviceChannelStart.  A running pipeline *)
(* has one worker thread.  env is what the operating system answers when   *)
(* the session or socket is set up.                                        *)
(***************************************************************************)
Pipeline(running, sessionOpen, start) ==
    [running |-> running, sessionOpen |-> sessionOpen, start |-> start]

PipeResult(ok, p, live) == [ok |-> ok, pipe |-> p, live |-> live]

Live(threads, sockets) == [threads |-> threads, sockets |-> sockets]

\* RTPReceiver::start / RTPTransmitter::start.  The manager has validated
\* the descriptor (address, port, channel count) before it constructs the
\* pipeline.  A failed set-up closes what it opened before it returns.
PipeStart(p, live, env) ==
    IF p.running \/ p.sessionOpen THEN PipeResult(FALSE, p, live)
    ELSE IF env = "fail" THEN PipeResult(FALSE, p, live)
    ELSE PipeResult(TRUE, Pipeline(TRUE, TRUE, p.start),
                    Live(live.threads + 1, live.sockets + 1))

\* RTPReceiver::stop / RTPTransmitter::stop
PipeStop(p, live) ==
    IF ~p.running THEN PipeResult(TRUE, p, live)
    ELSE PipeResult(TRUE, Pipeline(FALSE, FALSE, p.start),
                    Live(live.threads - 1, live.sockets - 1))

\* RTPReceiver::updateMapping / RTPTransmitter::updateMapping
PipeUpdateMapping(p, numChannels, newStart, live, env) ==
    IF newStart + numChannels > kMaxDeviceChannels THEN PipeResult(FALSE, p, live)
    ELSE LET stopped == IF p.running THEN PipeStop(p, live)
                        ELSE PipeResult(TRUE, p, live)
             moved == Pipeline(stopped.pipe.running, stopped.pipe.sessionOpen,
                               newStart)
         IN  IF p.running THEN PipeStart(moved, stopped.live, env)
             ELSE PipeResult(TRUE, moved, stopped.live)

\* The device rings a pipeline's worker thread touches: mapChannelsToDevice
\* writes, and readDeviceChannels reads, ring deviceChannelStart + s for every
\* stream channel s < sdp_.numChannels.
PipeRings(st) ==
    IF st.pipe.running /\ st.pipe.start + st.sdp.numChannels <= kMaxDeviceChannels
    THEN { st.pipe.start + c : c \in 0..(st.sdp.numChannels - 1) }
    ELSE {}

(***************************************************************************)
(* StreamManager                                                           *)
(***************************************************************************)
\* An address is its dotted-quad octets; the empty string is <<>>.
SDPSession(rate, channels, address, port) ==
    [sampleRate |-> rate, numChannels |-> channels,
     connectionAddress |-> address, port |-> port]

\* A variant of validateSampleRate that accepts every rate.
validateSampleRate_Any(sdp) == TRUE

validateSampleRate(sdp) == sdp.sampleRate = currentDeviceSampleRate_

getAvailableChannelCount ==
    Cardinality({ k \in DeviceChannels : deviceChannelOwners_[k] = NullID })

validateChannelAvailability(numChannels) ==
    /\ ~(numChannels = 0 \/ numChannels > 128)
    /\ ~(numChannels > getAvailableChannelCount)

validateNetworkConfig(sdp) ==
    /\ sdp.connectionAddress # <<>>
    /\ sdp.connectionAddress[1] = 239
    /\ sdp.port # 0

canAddStream(sdp) ==
    /\ validateSampleRate(sdp)
    /\ validateChannelAvailability(sdp.numChannels)
    /\ validateNetworkConfig(sdp)

\* StreamID::generate(): a fresh random UUID.  Ids are interchangeable, so
\* the model takes the least id not in use.
FreshIDs == StreamIDs \ ((DOMAIN streams_) \cup (DOMAIN mappings_))
GenerateID == CHOOSE id \in FreshIDs : \A other \in FreshIDs : id <= other

ManagedStream(sdp, mapping, isTransmit, pipe) ==
    [sdp |-> sdp, mapping |-> mapping, isTransmit |-> isTransmit, pipe |-> pipe]

MgrInit ==
    /\ streams_ = <<>>
    /\ currentDeviceSampleRate_ = 48000
    /\ osLive = Live(0, 0)
    /\ mgrOp = [op |-> "init", ok |-> TRUE]
    /\ mgrTrace = <<>>
    /\ apiCalls = 0

\* std::lock_guard<std::mutex> lock(streamsMutex_) at the top of a manager
\* function: the mutex is taken first and released when the function returns
UnderStreamsMutex(events) == <<"lock">> \o events \o <<"unlock">>

MgrFail(name) ==
    /\ mgrOp' = [op |-> name, ok |-> FALSE]
    /\ mgrTrace' = UnderStreamsMutex(<<>>)
    /\ UNCHANGED <<deviceChannelOwners_, mappings_, streams_, osLive>>

\* The body shared by addStream(sdp, mapping) and createTxStream: lines 41-129
\* and 228-286.
Admit(name, sdp, mapping, isTransmit, env) ==
    IF ~canAddStream(sdp) THEN MgrFail(name)
    ELSE
      LET id == GenerateID
          completeMapping ==
              ChannelMapping(id, sdp.numChannels, mapping.deviceChannelStart,
                             sdp.numChannels, mapping.channelMap)
          added == addMapping(deviceChannelOwners_, mappings_, completeMapping)
          started == PipeStart(Pipeline(FALSE, FALSE, completeMapping.deviceChannelStart),
                               osLive, env)
          rolledBack == removeMapping(added.owners, added.mappings, id)
      IN  IF ~added.ret THEN MgrFail(name)
          ELSE IF ~started.ok
          THEN /\ deviceChannelOwners_' = rolledBack.owners
               /\ mappings_' = rolledBack.mappings
               /\ osLive' = started.live
               /\ mgrOp' = [op |-> name, ok |-> FALSE]
               /\ mgrTrace' = UnderStreamsMutex(<<"start">>)
               /\ UNCHANGED streams_
          ELSE /\ deviceChannelOwners_' = added.owners
               /\ mappings_' = added.mappings
               /\ streams_' = MapPut(streams_, id,
                                 ManagedStream(sdp, completeMapping, isTransmit,
                                               started.pipe))
               /\ osLive' = started.live
               /\ mgrOp' = [op |-> name, ok |-> TRUE]
               /\ mgrTrace' = UnderStreamsMutex(<<"start", "notifyStreamAdded">>)

\* Descriptors offered to the manager: valid ones, and one for each way
\* canAddStream refuses.
MgrChannelCounts == {1, 2}
ValidSdps == { SDPSession(48000, n, <<239, 1, 1, 1>>, 5004) : n \in MgrChannelCounts }
InvalidSdps ==
    { SDPSession(44100, 1, <<239, 1, 1, 1>>, 5004),
      SDPSession(48000, 0, <<239, 1, 1, 1>>, 5004),
      SDPSession(48000, 129, <<239, 1, 1, 1>>, 5004),
      SDPSession(48000, 1, <<>>, 5004),
      SDPSession(48000, 1, <<224, 0, 0, 1>>, 5004),
      SDPSession(48000, 1, <<239, 1, 1, 1>>, 0) }
SdpInputs == ValidSdps \cup InvalidSdps

MgrStarts == {0, 1, kMaxDeviceChannels}
\* The caller's mapping.  addStream and createTxStream overwrite its id and
\* both channel counts; updateMapping overwrites its id and stream channel
\* count and keeps the caller's deviceChannelCount.
AddMappingInputs ==
    { ChannelMapping(NullID, 0, s, 0, <<>>) : s \in MgrStarts }
    \cup { ChannelMapping(NullID, 0, 1, 0, <<0>>) }
UpdateMappingInputs ==
    { ChannelMapping(NullID, 0, s, d, <<>>) : s \in MgrStarts, d \in {1, 2} }
    \cup { ChannelMapping(NullID, 0, 1, 1, <<0>>) }
StartOutcomes == {"ok", "fail"}

\* What a caller passes to addStream / createTxStream.  A descriptor that
\* canAddStream refuses is refused before the mapping is looked at.
AdmitInputs ==
    { <<sdp, mapping, env>> :
        sdp \in ValidSdps, mapping \in AddMappingInputs, env \in StartOutcomes }
    \cup { <<sdp, ChannelMapping(NullID, 0, 0, 0, <<>>), "ok">> : sdp \in InvalidSdps }

\* addStream(sdp, mapping)
AddStream ==
    \E in \in AdmitInputs :
        /\ FreshIDs # {}
        /\ Admit("addStream", in[1], in[2], FALSE, in[3])
        /\ apiCalls < MaxCalls
        /\ apiCalls' = apiCalls + 1
        /\ UNCHANGED <<currentDeviceSampleRate_, notManager>>

\* addStream(sdp): createDefaultMapping, then addStream(sdp, mapping)
AddStreamAuto ==
    \E sdp \in SdpInputs, env \in StartOutcomes :
        /\ FreshIDs # {}
        /\ LET blockStart == findContiguousBlock(sdp.numChannels)
           IN  IF blockStart = -1
               THEN /\ mgrOp' = [op |-> "addStream", ok |-> FALSE]
                    /\ mgrTrace' = <<>>
                    /\ UNCHANGED <<deviceChannelOwners_, mappings_, streams_, osLive>>
               ELSE Admit("addStream", sdp,
                          ChannelMapping(NullID, sdp.numChannels, blockStart,
                                         sdp.numChannels, <<>>),
                          FALSE, env)
        /\ apiCalls < MaxCalls
        /\ apiCalls' = apiCalls + 1
    /\ UNCHANGED <<currentDeviceSampleRate_, notManager>>

\* Threads calling addStream(sdp)
Callers == {1, 2}

AdmitInit == autoSelected = [t \in Callers |-> <<>>]

\* addStream(sdp) up to the return of createDefaultMapping, which holds the
\* router's mutex_ while it looks for a block; streamsMutex_ is not held
AddStreamSelect ==
    \E t \in Callers, sdp \in ValidSdps :
        /\ autoSelected[t] = <<>>
        /\ apiCalls < MaxCalls
        /\ LET blockStart == findContiguousBlock(sdp.numChannels)
           IN  IF blockStart = -1
               THEN /\ mgrOp' = [op |-> "addStream", ok |-> FALSE]
                    /\ mgrTrace' = <<>>
                    /\ apiCalls' = apiCalls + 1
                    /\ UNCHANGED autoSelected
               ELSE /\ autoSelected' =
                          [autoSelected EXCEPT ![t] =
                              <<sdp, ChannelMapping(NullID, sdp.numChannels, blockStart,
                                                    sdp.numChannels, <<>>)>>]
                    /\ UNCHANGED <<mgrOp, mgrTrace, apiCalls>>
        /\ UNCHANGED <<deviceChannelOwners_, mappings_, streams_, osLive,
                       currentDeviceSampleRate_, ringVars, routerOp, txVars, rxVars,
                       ioVars, sapVars, rcvVars, cfgVars, wireVars, ptpVars, sdpVars,
                       laneVars>>

\* addStream(sdp) from the call of addStream(sdp, mapping) on, with the
\* mapping selected before; the receiver starts
AddStreamInsert ==
    \E t \in Callers :
        /\ autoSelected[t] # <<>>
        /\ FreshIDs # {}
        /\ Admit("addStream", autoSelected[t][1], autoSelected[t][2], FALSE, "ok")
        /\ autoSelected' = [autoSelected EXCEPT ![t] = <<>>]
        /\ apiCalls' = apiCalls + 1
        /\ UNCHANGED <<currentDeviceSampleRate_, ringVars, routerOp, txVars, rxVars,
                       ioVars, sapVars, rcvVars, cfgVars, wireVars, ptpVars, sdpVars,
                       laneVars>>

\* createTxStream(name, multicastIP, port, numChannels, mapping)
CreateTxStream ==
    \E in \in AdmitInputs :
        /\ FreshIDs # {}
        /\ Admit("createTxStream",
                 [in[1] EXCEPT !.sampleRate = currentDeviceSampleRate_],
                 in[2], TRUE, in[3])
        /\ apiCalls < MaxCalls
        /\ apiCalls' = apiCalls + 1
    /\ UNCHANGED <<currentDeviceSampleRate_, notManager>>

\* The stop() and start() that RTPReceiver::updateMapping /
\* RTPTransmitter::updateMapping make on a running pipeline
PipeUpdateEvents(p, numChannels, newStart) ==
    IF newStart + numChannels > kMaxDeviceChannels THEN <<>>
    ELSE IF p.running THEN <<"stop", "start">> ELSE <<>>

\* updateMapping(id, newMapping)
MgrUpdateMapping ==
    \E id \in StreamIDs, newMapping \in UpdateMappingInputs, env \in StartOutcomes :
        /\ IF id \notin DOMAIN streams_ THEN MgrFail("updateMapping")
           ELSE
             LET st == streams_[id]
                 completeMapping ==
                     ChannelMapping(id, st.sdp.numChannels,
                                    newMapping.deviceChannelStart,
                                    newMapping.deviceChannelCount,
                                    newMapping.channelMap)
                 routed == updateMapping(deviceChannelOwners_, mappings_,
                                         completeMapping)
                 updated == PipeUpdateMapping(st.pipe, st.sdp.numChannels,
                                              completeMapping.deviceChannelStart,
                                              osLive, env)
             IN  IF ~routed.ret THEN MgrFail("updateMapping")
                 ELSE /\ deviceChannelOwners_' = routed.owners
                      /\ mappings_' = routed.mappings
                      /\ streams_' = [streams_ EXCEPT
                                        ![id].mapping = completeMapping,
                                        ![id].pipe = updated.pipe]
                      /\ osLive' = updated.live
                      /\ mgrOp' = [op |-> "updateMapping", ok |-> updated.ok]
                      /\ mgrTrace' = UnderStreamsMutex(
                            PipeUpdateEvents(st.pipe, st.sdp.numChannels,
                                             completeMapping.deviceChannelStart)
                            \o (IF updated.ok THEN <<"notifyStreamStatusChanged">>
                                ELSE <<>>))
        /\ apiCalls < MaxCalls
        /\ apiCalls' = apiCalls + 1
    /\ UNCHANGED <<currentDeviceSampleRate_, notManager>>

\* What removeStream and removeAllStreams do for one stream: stop() joins the
\* worker and closes the socket of a running pipeline, then the observer is told
StopAndNotify(st) ==
    (IF st.pipe.running THEN <<"stop">> ELSE <<>>) \o <<"notifyStreamRemoved">>

\* The loop of removeAllStreams over the streams with ids from..NumStreams
RECURSIVE StopAndNotifyAll(_)
StopAndNotifyAll(from) ==
    IF from > NumStreams THEN <<>>
    ELSE (IF from \in DOMAIN streams_ THEN StopAndNotify(streams_[from]) ELSE <<>>)
         \o StopAndNotifyAll(from + 1)

\* A variant of RemoveStreamEvents that tells the observer before the record
\* is erased.
RemoveStreamEvents_NotifyFirst(st) ==
    (IF st.pipe.running THEN <<"stop">> ELSE <<>>)
    \o <<"removeMapping", "notifyStreamRemoved", "erase">>

\* removeStream after its lookup, in program order: stop() on the receiver or
\* transmitter (which joins the worker and closes the socket of a running
\* pipeline), mapper_.removeMapping(id), streams_.erase(it),
\* notifyStreamRemoved(info)
RemoveStreamEvents(st) ==
    (IF st.pipe.running THEN <<"stop">> ELSE <<>>)
    \o <<"removeMapping", "erase", "notifyStreamRemoved">>

\* removeStream(id)
RemoveStream ==
    \E id \in StreamIDs :
        /\ IF id \notin DOMAIN streams_ THEN MgrFail("removeStream")
           ELSE
             LET stopped == PipeStop(streams_[id].pipe, osLive)
                 removed == removeMapping(deviceChannelOwners_, mappings_, id)
             IN  /\ deviceChannelOwners_' = removed.owners
                 /\ mappings_' = removed.mappings
                 /\ streams_' = MapErase(streams_, id)
                 /\ osLive' = stopped.live
                 /\ mgrOp' = [op |-> "removeStream", ok |-> TRUE]
                 /\ mgrTrace' = UnderStreamsMutex(RemoveStreamEvents(streams_[id]))
        /\ apiCalls < MaxCalls
        /\ apiCalls' = apiCalls + 1
    /\ UNCHANGED <<currentDeviceSampleRate_, notManager>>

RunningPipes == { id \in DOMAIN streams_ : streams_[id].pipe.running }

\* removeAllStreams()
RemoveAllStreams ==
    /\ osLive' = Live(osLive.threads - Cardinality(RunningPipes),
                      osLive.sockets - Cardinality(RunningPipes))
    /\ streams_' = <<>>
    /\ deviceChannelOwners_' = clearAll(deviceChannelOwners_, mappings_).owners
    /\ mappings_' = clearAll(deviceChannelOwners_, mappings_).mappings
    /\ mgrOp' = [op |-> "removeAllStreams", ok |-> TRUE]
    /\ mgrTrace' = UnderStreamsMutex(StopAndNotifyAll(1))
    /\ apiCalls < MaxCalls
    /\ apiCalls' = apiCalls + 1
    /\ UNCHANGED <<currentDeviceSampleRate_, notManager>>

\* Rates asked of setDeviceSampleRate: one below the supported range, the
\* initial rate and another supported rate
DeviceRateInputs == {22050, 48000, 96000}

\* setDeviceSampleRate(sampleRate)
SetDeviceSampleRate ==
    \E sampleRate \in DeviceRateInputs :
        /\ IF sampleRate < 44100 \/ sampleRate > 384000
           THEN /\ mgrOp' = [op |-> "setDeviceSampleRate", ok |-> FALSE,
                             sampleRate |-> sampleRate]
                /\ mgrTrace' = <<>>
                /\ UNCHANGED currentDeviceSampleRate_
           ELSE IF \E id \in DOMAIN streams_ :
                      streams_[id].sdp.sampleRate # sampleRate
           THEN /\ mgrOp' = [op |-> "setDeviceSampleRate", ok |-> FALSE,
                             sampleRate |-> sampleRate]
                /\ mgrTrace' = UnderStreamsMutex(<<>>)
                /\ UNCHANGED currentDeviceSampleRate_
           ELSE /\ mgrOp' = [op |-> "setDeviceSampleRate", ok |-> TRUE,
                             sampleRate |-> sampleRate]
                /\ mgrTrace' = UnderStreamsMutex(<<>>)
                /\ currentDeviceSampleRate_' = sampleRate
        /\ apiCalls < MaxCalls
        /\ apiCalls' = apiCalls + 1
        /\ UNCHANGED <<deviceChannelOwners_, mappings_, streams_, osLive, notManager>>

MgrNext ==
    \/ AddStream
    \/ AddStreamAuto
    \/ CreateTxStream
    \/ MgrUpdateMapping
    \/ RemoveStream
    \/ RemoveAllStreams

\* Admission, removal and the device rate
\* addStream(sdp) from several threads, and removeStream
AdmitNext == AddStreamSelect \/ AddStreamInsert \/ RemoveStream

MgrRateNext ==
    \/ AddStream
    \/ AddStreamAuto
    \/ CreateTxStream
    \/ RemoveStream
    \/ RemoveAllStreams
    \/ SetDeviceSampleRate

(***************************************************************************)
(* RTPTransmitter: one transmitter with TxChannels stream channels whose   *)
(* mapping is in range, its transmit thread, and the host side that fills  *)
(* the output rings.                                                       *)
(***************************************************************************)
TxStreamChannels == 0..(TxChannels - 1)
OutRingCapacity == SamplesPerPacket + 1
\* A variant of Uint16 that does not wrap.
Uint16_NoWrap(n) == n

\* A value stored into a uint16_t
Uint16(n) == n % 65536
\* A uint32_t is held as its two 16-bit halves, value = hi * 65536 + lo
Uint32(hi, lo) == [hi |-> hi, lo |-> lo]
\* t + n in uint32_t arithmetic, for n < 65536
Uint32Add(t, n) ==
    Uint32(Uint16(t.hi + ((t.lo + n) \div 65536)), Uint16(t.lo + n))

BytesPerSample(encoding) ==
    IF encoding = "L16" THEN 2 ELSE IF encoding = "L24" THEN 3 ELSE 0

\* SPSCRingBuffer::read(channelBuffer, frameCount) on a ring holding fill samples
SamplesRead(fill, frameCount) == Min(frameCount, fill)

\* readDeviceChannels: true unless some ring returned fewer than frameCount
readDeviceChannels(rings, frameCount) ==
    ~(\E c \in TxStreamChannels : SamplesRead(rings[c], frameCount) < frameCount)

TxInit ==
    /\ txRunning = FALSE
    /\ sequenceNumber_ = 0
    /\ timestamp_ = Uint32(0, 0)
    /\ txStats = [overruns |-> 0, bytesSent |-> 0, malformedPackets |-> 0]
    /\ txEncoding = "L24"      \* createTxStream: sdp.encoding = "L24"
    /\ outRing = [c \in TxStreamChannels |-> 0]
    /\ txWire = <<>>
    /\ txIntervals = 0

\* RTPTransmitter::start with the socket opening
TxStart ==
    /\ ~txRunning
    /\ timestamp_' = Uint32(0, 0)
    /\ sequenceNumber_' = 0
    /\ txRunning' = TRUE
    /\ txWire' = <<>>
    /\ UNCHANGED <<txStats, txEncoding, outRing, txIntervals, notTx>>

\* RTPTransmitter::stop
TxStop ==
    /\ txRunning
    /\ txRunning' = FALSE
    /\ UNCHANGED <<sequenceNumber_, timestamp_, txStats, txEncoding, outRing,
                   txWire, txIntervals, notTx>>

\* The host's output callback writes count samples to one output ring
HostWrite ==
    \E c \in TxStreamChannels, count \in 1..SamplesPerPacket :
        /\ outRing[c] < OutRingCapacity
        /\ outRing' = [outRing EXCEPT ![c] = Min(OutRingCapacity, outRing[c] + count)]
        /\ UNCHANGED <<txRunning, sequenceNumber_, timestamp_, txStats, txEncoding,
                       txWire, txIntervals, notTx>>

\* One iteration of transmitLoop: the interval elapses, the rings are read,
\* and either the iteration is abandoned or a packet is encoded and sent.
TxInterval ==
    \E sendOk \in BOOLEAN :
        /\ txRunning
        /\ txIntervals < MaxIntervals
        /\ txIntervals' = txIntervals + 1
        /\ outRing' = [c \in TxStreamChannels |->
                          outRing[c] - SamplesRead(outRing[c], SamplesPerPacket)]
        /\ IF ~readDeviceChannels(outRing, SamplesPerPacket)
           THEN /\ txStats' = [txStats EXCEPT !.overruns = @ + 1]
                /\ UNCHANGED <<sequenceNumber_, timestamp_, txWire>>
           ELSE IF BytesPerSample(txEncoding) = 0
           THEN UNCHANGED <<sequenceNumber_, timestamp_, txWire, txStats>>
           ELSE /\ txWire' = Append(txWire, [sequenceNumber |-> sequenceNumber_,
                                             timestamp |-> timestamp_])
                /\ sequenceNumber_' = Uint16(sequenceNumber_ + 1)
                /\ timestamp_' = Uint32Add(timestamp_, SamplesPerPacket)
                /\ txStats' = [txStats EXCEPT
                      !.bytesSent = @ + SamplesPerPacket * TxChannels
                                        * BytesPerSample(txEncoding),
                      !.malformedPackets = IF sendOk THEN @ ELSE @ + 1]
        /\ UNCHANGED <<txRunning, txEncoding, notTx>>

TxNext == TxStart \/ TxStop \/ HostWrite \/ TxInterval

\* Numbers of packets a transmitter sends when left running with its rings
\* kept full: 2^16 - 1, 2^31 - 1 and 2^32 - 1, as 16-bit halves
TxRunLengths ==
    {Uint32(0, 65535), Uint32(32767, 65535), Uint32(65535, 65535)}

\* transmitLoop iterated n times from start() with the rings full at every
\* interval, followed by resetStatistics(): each iteration sends a packet,
\* sequenceNumber_++ and timestamp_ += samplesPerPacket.  The packets that
\* follow are recorded in txWire.
TxRunFor ==
    \E n \in TxRunLengths :
        /\ txRunning
        /\ txWire = <<>>
        /\ sequenceNumber_ = 0
        /\ timestamp_ = Uint32(0, 0)
        /\ sequenceNumber_' = Uint16(n.lo)
        /\ timestamp_' = Uint32(Uint16(n.hi * SamplesPerPacket
                                          + (n.lo * SamplesPerPacket) \div 65536),
                                Uint16(n.lo * SamplesPerPacket))
        /\ txStats' = [overruns |-> 0, bytesSent |-> 0, malformedPackets |-> 0]
        /\ UNCHANGED <<txRunning, txEncoding, outRing, txWire, txIntervals, notTx>>

TxWrapNext == TxNext \/ TxRunFor

\* Descriptors a transmitter is constructed from
MaxPtime == 4
TxSampleRates == {44100, 48000, 88200, 96000, 176400, 192000, 352800, 384000}
TxPtimes == 1..MaxPtime
TxChannelCounts == {1, 2, 8, 128}

\* packetInterval_ in microseconds, as the constructor sets it
packetInterval(sdp) == 1000
\* samplesPerPacket of transmitLoop
samplesPerPacket(sdp) == sdp.sampleRate \div 1000

TxConfigInit ==
    txConfig = [sampleRate |-> 48000, ptime |-> 1, numChannels |-> 2,
                packetIntervalUs |-> 1000, samplesPerPacket |-> 48]

\* RTPTransmitter::RTPTransmitter(sdp, mapping, deviceChannels) and the
\* samplesPerPacket its transmitLoop will use
TxConstruct ==
    \E sampleRate \in TxSampleRates, ptime \in TxPtimes,
       numChannels \in TxChannelCounts :
        LET sdp == [sampleRate |-> sampleRate, ptime |-> ptime,
                    numChannels |-> numChannels]
        IN  /\ txConfig' = [sampleRate |-> sampleRate, ptime |-> ptime,
                            numChannels |-> numChannels,
                            packetIntervalUs |-> packetInterval(sdp),
                            samplesPerPacket |-> samplesPerPacket(sdp)]
            /\ UNCHANGED <<routerVars, ringVars, mgrVars, txVars, rxVars, ioVars,
                           sapVars, rcvVars, wireVars, extVars>>

TxConfigNext == TxConstruct

(***************************************************************************)
(* RTPReceiver: what processPacket and updateStats do to the statistics.   *)
(***************************************************************************)
\* uint16_t expected = lastSequenceNumber_ + 1
ExpectedSeq(last) == Uint16(last + 1)

\* A variant of SequenceGap that subtracts without the 16-bit wrap.
SequenceGap_NoWrap(sequenceNumber, expected) == sequenceNumber - expected

\* uint16_t gap = sequenceNumber - expected
SequenceGap(sequenceNumber, expected) ==
    Uint16(sequenceNumber - expected + 65536)

\* updateStats(sequenceNumber, payloadSize): the new stats_
updateStats(stats, last, sequenceNumber, payloadSize) ==
    LET expected == ExpectedSeq(last)
        lost == IF stats.packetsReceived > 0 /\ sequenceNumber # expected
                THEN stats.packetsLost + SequenceGap(sequenceNumber, expected)
                ELSE stats.packetsLost
    IN  [stats EXCEPT !.packetsLost = lost,
                      !.packetsReceived = @ + 1,
                      !.bytesReceived = @ + payloadSize]

\* Sequence numbers on either side of the 16-bit wrap
SeqChoices == {65534, 65535, 0, 1, 2, 3}
\* One packet of L24 audio
RxPayloadSize == SamplesPerPacket * TxChannels * 3

RxInit ==
    /\ rxStats = [packetsReceived |-> 0, packetsLost |-> 0, bytesReceived |-> 0,
                  malformedPackets |-> 0]
    /\ lastSequenceNumber_ = 0
    /\ connected_ = FALSE
    /\ rxSeqs = <<>>

\* processPacket on a packet that validatePacket and the size checks accept
ProcessPacket ==
    \E sequenceNumber \in SeqChoices :
        /\ Len(rxSeqs) + rxStats.malformedPackets < MaxPackets
        /\ connected_' = TRUE
        /\ rxStats' = updateStats(rxStats, lastSequenceNumber_, sequenceNumber,
                                  RxPayloadSize)
        /\ lastSequenceNumber_' = sequenceNumber
        /\ rxSeqs' = Append(rxSeqs, sequenceNumber)
        /\ UNCHANGED notRx

\* processPacket on a packet that fails validation or has no payload
ProcessMalformed ==
    /\ Len(rxSeqs) + rxStats.malformedPackets < MaxPackets
    /\ rxStats' = [rxStats EXCEPT !.malformedPackets = @ + 1]
    /\ UNCHANGED <<lastSequenceNumber_, connected_, rxSeqs, notRx>>

\* resetStatistics
ResetStatistics ==
    /\ rxStats' = [packetsReceived |-> 0, packetsLost |-> 0, bytesReceived |-> 0,
                   malformedPackets |-> 0]
    /\ lastSequenceNumber_' = 0
    /\ rxSeqs' = <<>>
    /\ rxUnderruns' = 0
    /\ UNCHANGED <<connected_, lastPacketTime_, rxLast, rcvSinceValid, lifeVars,
                   ioVars, notReceive>>

RxNext == ProcessPacket \/ ProcessMalformed \/ ResetStatistics

(***************************************************************************)
(* AES67IOHandler: the input callback and the network side that fills the  *)
(* input rings between callbacks.                                          *)
(***************************************************************************)
kNumChannels == 128
kMaxFramesPerBuffer == 512
IOChannels == 0..(kNumChannels - 1)

\* A variant of HadUnderrunAt in which the flag is never seen set.
HadUnderrunAt_NeverSet(ch, rings, frameCount) == FALSE

\* The value of hadUnderrun at the top of the channel loop's iteration ch:
\* set once an earlier channel's read came back short
HadUnderrunAt(ch, rings, frameCount) ==
    \E c \in 0..(ch - 1) : SamplesRead(rings[c], frameCount) < frameCount

\* Iteration ch of the channel loop executes inputUnderruns_.fetch_add(1)
CountsUnderrun(ch, rings, frameCount) ==
    /\ SamplesRead(rings[ch], frameCount) < frameCount
    /\ ~HadUnderrunAt(ch, rings, frameCount)

\* processInput(outputData, frameCount, channelCount): the counter and the
\* rings afterwards
processInput(rings, underruns, frameCount, channelCount) ==
    IF frameCount > kMaxFramesPerBuffer
    THEN [inputUnderruns |-> underruns, rings |-> rings]
    ELSE [inputUnderruns |->
              underruns + Cardinality({ ch \in 0..(channelCount - 1) :
                                          CountsUnderrun(ch, rings, frameCount) }),
          rings |-> [ch \in IOChannels |->
                        IF ch < channelCount
                        THEN rings[ch] - SamplesRead(rings[ch], frameCount)
                        ELSE rings[ch]]]

\* The ring reads of one callback that returned fewer frames than requested
ShortReads(rings, frameCount, channelCount) ==
    IF channelCount # kNumChannels \/ frameCount > kMaxFramesPerBuffer THEN {}
    ELSE { ch \in IOChannels : SamplesRead(rings[ch], frameCount) < frameCount }

FrameCountChoices == {0, 1, InputRingFrames, kMaxFramesPerBuffer + 1}
ChannelCountChoices == {2, kNumChannels}
\* Rings the network side fills one at a time
SingleRings == {0, kNumChannels - 1}

IOInit ==
    /\ inputBuffers_ = [ch \in IOChannels |-> 0]
    /\ inputUnderruns_ = 0
    /\ ioCallbacks = 0
    /\ ioLast = [frameCount |-> 0, channelCount |-> 0, shortReads |-> 0]

\* OnReadClientInput with a stream and an output buffer
OnReadClientInput ==
    \E frameCount \in FrameCountChoices, channelCount \in ChannelCountChoices :
        /\ ioCallbacks < MaxCallbacks
        /\ ioCallbacks' = ioCallbacks + 1
        /\ ioLast' = [frameCount |-> frameCount, channelCount |-> channelCount,
                      shortReads |-> Cardinality(ShortReads(inputBuffers_, frameCount,
                                                            channelCount))]
        /\ IF channelCount # kNumChannels
           THEN UNCHANGED <<inputBuffers_, inputUnderruns_>>
           ELSE LET r == processInput(inputBuffers_, inputUnderruns_, frameCount,
                                      channelCount)
                IN  /\ inputBuffers_' = r.rings
                    /\ inputUnderruns_' = r.inputUnderruns
        /\ UNCHANGED notIO

\* Receivers deliver count frames to every input ring
NetworkFillAll ==
    \E count \in 1..InputRingFrames :
        /\ ~(\A ch \in IOChannels : inputBuffers_[ch] = InputRingFrames)
        /\ inputBuffers_' = [ch \in IOChannels |->
                                Min(InputRingFrames, inputBuffers_[ch] + count)]
        /\ UNCHANGED <<inputUnderruns_, ioCallbacks, ioLast, notIO>>

\* A receiver delivers one frame to one input ring
NetworkFillOne ==
    \E ch \in SingleRings :
        /\ inputBuffers_[ch] < InputRingFrames
        /\ inputBuffers_' = [inputBuffers_ EXCEPT ![ch] = @ + 1]
        /\ UNCHANGED <<inputUnderruns_, ioCallbacks, ioLast, notIO>>

IONext == OnReadClientInput \/ NetworkFillAll \/ NetworkFillOne

(***************************************************************************)
(* SAPListener                                                             *)
(***************************************************************************)
\* Time is counted in minutes of std::chrono::steady_clock.  The listener
\* uses its time points only in now - lastSeen > timeout and
\* now - lastCleanup_ > cleanupInterval_, so each time point is held as the
\* time elapsed since it, counted up to one past the threshold it is compared
\* with.
cleanupInterval_ == 1
timeout == 10

Elapse(elapsed, threshold) == Min(elapsed + 1, threshold + 1)

SapHashes == 1..NumHashes

\* A datagram as processSAPPacket classifies it: an announce or a delete of a
\* message hash, one that parseSAPHeader / SDPParser rejects, or one of zero
\* bytes
SapDatagrams ==
    [kind : {"announce", "delete"}, hash : SapHashes]
        \cup [kind : {"rejected", "empty"}, hash : {0}]

\* A variant of CacheErase that erases nothing.
CacheErase_Keep(cache, hashes) == cache

CacheErase(cache, hashes) == [h \in (DOMAIN cache) \ hashes |-> cache[h]]

CachePut(cache, hash, lastSeen) ==
    [h \in (DOMAIN cache) \cup {hash} |-> IF h = hash THEN lastSeen ELSE cache[h]]

SapResult(cache, trace, deleted) ==
    [cache |-> cache, trace |-> trace, deleted |-> deleted]

\* processSAPPacket(data, length, sourceIP); sinceSeen is now - lastSeen of the
\* announcement it stores
processSAPPacket(cache, pkt, sinceSeen) ==
    IF pkt.kind = "rejected" THEN SapResult(cache, <<>>, {})
    ELSE IF pkt.kind = "delete" THEN
        IF pkt.hash \in DOMAIN cache
        THEN SapResult(CacheErase(cache, {pkt.hash}),
                       <<"lock", "deletionCallback", "unlock">>, {pkt.hash})
        ELSE SapResult(cache, <<"lock", "unlock">>, {})
    ELSE SapResult(CachePut(cache, pkt.hash, sinceSeen),
                   <<"lock", "unlock", "discoveryCallback">>, {})

\* The entries cleanupOldAnnouncements erases
StaleHashes(cache) ==
    { h \in DOMAIN cache : cache[h] > timeout }

RECURSIVE DeletionCallbacks(_)
DeletionCallbacks(n) ==
    IF n = 0 THEN <<>> ELSE <<"deletionCallback">> \o DeletionCallbacks(n - 1)

\* cleanupOldAnnouncements()
cleanupOldAnnouncements(cache) ==
    LET stale == StaleHashes(cache)
    IN  SapResult(CacheErase(cache, stale),
                  <<"lock">> \o DeletionCallbacks(Cardinality(stale)) \o <<"unlock">>,
                  stale)

SapInit ==
    /\ sapRunning = FALSE
    /\ announcements_ = <<>>
    /\ lastCleanup_ = 0
    /\ sapNow = 0
    /\ sapSocket = <<>>
    /\ sapTrace = <<>>
    /\ sapDeleted = {}

\* start(multicastAddress, port): socket bound, group joined, thread created
SapStart ==
    /\ ~sapRunning
    /\ sapRunning' = TRUE
    /\ sapSocket' = <<>>
    /\ UNCHANGED <<announcements_, lastCleanup_, sapNow, sapTrace, sapDeleted, notSap>>

\* stop(): socket shut down and closed, listen thread joined
SapStop ==
    /\ sapRunning
    /\ sapRunning' = FALSE
    /\ sapSocket' = <<>>
    /\ UNCHANGED <<announcements_, lastCleanup_, sapNow, sapTrace, sapDeleted, notSap>>

\* A datagram reaches the bound socket
SapArrive ==
    /\ sapRunning
    /\ Len(sapSocket) < MaxQueued
    /\ \E pkt \in SapDatagrams : sapSocket' = Append(sapSocket, pkt)
    /\ UNCHANGED <<sapRunning, announcements_, lastCleanup_, sapNow, sapTrace,
                   sapDeleted, notSap>>

\* The steady clock advances by one minute
SapTick ==
    /\ sapNow' = (sapNow + 1) % ClockPeriod
    /\ announcements_' =
          [h \in DOMAIN announcements_ |-> Elapse(announcements_[h], timeout)]
    /\ lastCleanup_' = Elapse(lastCleanup_, cleanupInterval_)
    /\ UNCHANGED <<sapRunning, sapSocket, sapTrace, sapDeleted, notSap>>

\* One iteration of listenLoop: recvfrom returns the next queued datagram, the
\* datagram is processed, and the periodic cleanup runs when it is due
ListenLoop ==
    /\ sapRunning
    /\ sapSocket # <<>>
    /\ LET pkt == Head(sapSocket)
           processed == IF pkt.kind = "empty"
                        THEN SapResult(announcements_, <<>>, {})
                        ELSE processSAPPacket(announcements_, pkt, 0)
           due == lastCleanup_ > cleanupInterval_
           cleaned == IF due THEN cleanupOldAnnouncements(processed.cache)
                      ELSE SapResult(processed.cache, <<>>, {})
       IN  /\ announcements_' = cleaned.cache
           /\ sapTrace' = processed.trace \o cleaned.trace
           /\ sapDeleted' = processed.deleted \cup cleaned.deleted
           /\ lastCleanup_' = IF due THEN 0 ELSE lastCleanup_
    /\ sapSocket' = Tail(sapSocket)
    /\ UNCHANGED <<sapRunning, sapNow, notSap>>

SapNext == SapStart \/ SapStop \/ SapArrive \/ SapTick \/ ListenLoop

(***************************************************************************)
(* SAPListener on the bytes of a datagram: parseSAPHeader and the checks   *)
(* of processSAPPacket.                                                    *)
(***************************************************************************)
\* A datagram is its header fields and what follows the authentication data:
\*   byte0    version (3 bits), A, R, T, E, C
\*   authLen  byte 1
\*   hash     bytes 2-3
\*   body     "none": nothing; "type": a payload type string without its
\*            terminator; "typeNul": the string and its terminator;
\*            "full": the string, the terminator and a payload
\*   sdpOk    whether SDPParser::parseString accepts the payload
\* The origin address and the authentication data have the sizes byte 0 and
\* byte 1 announce.  short is a datagram of fewer than 4 bytes.
PayloadTypeLen == 15
SdpLen == 40
SapByte0s == {32, 36, 48, 52, 38, 37, 68, 4, 44}
SapBodies == {"none", "type", "typeNul", "full"}
RawDatagram(short, byte0, authLen, hash, body, sdpOk) ==
    [short |-> short, byte0 |-> byte0, authLen |-> authLen, hash |-> hash,
     body |-> body, sdpOk |-> sdpOk]
\* Bit n (0 = least significant) of a byte
Bit(byte, n) == (byte \div (2 ^ n)) % 2 = 1

\* Datagrams received: every header with every body, the payload of an
\* announce being one SDPParser accepts or one it rejects
RawDatagrams ==
    { RawDatagram(FALSE, b, a, h, body, FALSE) :
        b \in SapByte0s, a \in {0, 1}, h \in SapHashes, body \in SapBodies }
    \cup { RawDatagram(FALSE, b, a, h, "full", TRUE) :
             b \in { x \in SapByte0s : ~Bit(x, 2) }, a \in {0, 1}, h \in SapHashes }
    \cup { RawDatagram(TRUE, 36, 0, 0, "none", FALSE) }

\* Where the payload type string starts, and the datagram's length
HeaderEnd(d) == 4 + (IF Bit(d.byte0, 4) THEN 16 ELSE 4) + d.authLen * 4
DatagramLength(d) ==
    IF d.short THEN 3
    ELSE HeaderEnd(d) + (CASE d.body = "none" -> 0
                           [] d.body = "type" -> PayloadTypeLen
                           [] d.body = "typeNul" -> PayloadTypeLen + 1
                           [] d.body = "full" -> PayloadTypeLen + 1 + SdpLen)

\* if (version != 1 || encrypted || compressed) return false;
HeaderSupported(version, encrypted, compressed) ==
    ~(version # 1 \/ encrypted \/ compressed)

\* parseSAPHeader(data, length, isDelete, messageHash, sdpOffset)
parseSAPHeader(d) ==
    LET length == DatagramLength(d)
        version == (d.byte0 \div 32) % 8
        isDelete == Bit(d.byte0, 2)
        encrypted == Bit(d.byte0, 1)
        compressed == Bit(d.byte0, 0)
        offset == HeaderEnd(d)
        \* the while loop stops at the terminator, or at length without one
        stop == IF d.body \in {"typeNul", "full"} THEN offset + PayloadTypeLen
                ELSE length
        failed == [ok |-> FALSE, isDelete |-> isDelete, messageHash |-> 0,
                   sdpOffset |-> 0]
    IN  IF length < 4 THEN failed
        ELSE IF ~HeaderSupported(version, encrypted, compressed) THEN failed
        ELSE IF offset >= length THEN failed
        ELSE [ok |-> TRUE, isDelete |-> isDelete, messageHash |-> d.hash,
              sdpOffset |-> stop + 1]

\* What processSAPPacket makes of the datagram: nothing ("rejected"), a
\* delete or an announce of the message hash
Classify(d) ==
    LET h == parseSAPHeader(d)
    IN  IF DatagramLength(d) < 4 \/ ~h.ok \/ h.sdpOffset >= DatagramLength(d)
        THEN [kind |-> "rejected", hash |-> 0]
        ELSE IF h.isDelete THEN [kind |-> "delete", hash |-> h.messageHash]
        ELSE IF ~d.sdpOk THEN [kind |-> "rejected", hash |-> 0]
        ELSE [kind |-> "announce", hash |-> h.messageHash]

\* Senders of datagrams (senderAddr.sin_addr)
SapSources == {1, 2}

WireInit ==
    /\ sapLast = [flip |-> FALSE, dgram |-> RawDatagram(TRUE, 36, 0, 0, "none", FALSE),
                  sourceIP |-> 1]
    /\ sapOrigins = <<>>

\* One iteration of listenLoop in which recvfrom returns datagram d sent by
\* sourceIP: the datagram is processed, and the periodic cleanup runs when it
\* is due
recvfrom(d, sourceIP) ==
        /\ sapRunning
        /\ sapLast' = [flip |-> ~sapLast.flip, dgram |-> d, sourceIP |-> sourceIP]
        /\ LET pkt == Classify(d)
               processed == processSAPPacket(announcements_, pkt, 0)
               due == lastCleanup_ > cleanupInterval_
               cleaned == IF due THEN cleanupOldAnnouncements(processed.cache)
                          ELSE SapResult(processed.cache, <<>>, {})
           IN  /\ announcements_' = cleaned.cache
               /\ sapOrigins' = [h \in DOMAIN cleaned.cache |->
                                    IF pkt.kind = "announce" /\ pkt.hash = h
                                    THEN sourceIP ELSE sapOrigins[h]]
               /\ sapTrace' = processed.trace \o cleaned.trace
               /\ sapDeleted' = processed.deleted \cup cleaned.deleted
               /\ lastCleanup_' = IF due THEN 0 ELSE lastCleanup_
        /\ UNCHANGED <<sapRunning, sapNow, sapSocket, routerVars, ringVars, mgrVars,
                       txVars, rxVars, ioVars, rcvVars, cfgVars, extVars>>

\* listenLoop on a network with a single announcer
ListenLoopDatagram == \E d \in RawDatagrams : recvfrom(d, 1)

\* listenLoop on a network where every sender of SapSources announces
ListenLoopSenders == \E d \in RawDatagrams, sourceIP \in SapSources : recvfrom(d, sourceIP)

SapWireNext == SapStart \/ SapStop \/ ListenLoopDatagram

SapSendersNext == SapStart \/ SapStop \/ ListenLoopSenders

(***************************************************************************)
(* PTPClock and PTPClockManager.  Callers keep the shared_ptr that         *)
(* getClockForDomain returns, so a PTPClock outlives its removal from      *)
(* clocks_ and its start() and stop() stay callable.                       *)
(***************************************************************************)
NumPtpDomains == 1       \* PTP domains -1 .. NumPtpDomains - 1
MaxClocks == 2           \* PTPClock objects constructed
MaxLocalTime == 1        \* LocalClock::getTime() returns 0 .. MaxLocalTime

\* offsetNs_ = 100 of updateLockStatus
LockedOffsetNs == 100

PtpDomains == (-1) .. (NumPtpDomains - 1)
ClockObjects == 1 .. Len(ptpClocks)

coreVars == <<routerVars, ringVars, mgrVars, txVars, rxVars, ioVars, sapVars, rcvVars,
              cfgVars, wireVars>>
notPtp == <<coreVars, sdpVars, admitVars, laneVars>>

\* PTPClock(domain) followed by start(), as getClockForDomain runs them
NewClock(domain) ==
    [domain_ |-> domain, running_ |-> TRUE, locked_ |-> FALSE, offsetNs_ |-> 0,
     joinable |-> TRUE, threads |-> 1, starting |-> 0, stopping |-> 0, pc |-> "idle"]

\* A variant of getTime that never applies the offset.
getTime_NoOffset(clock, localTime) == localTime

\* PTPClock::getTime()
getTime(clock, localTime) ==
    IF clock.locked_ THEN localTime + clock.offsetNs_ ELSE localTime

\* The worker threads of a domain: the ptpThread threads of every PTPClock
\* constructed for it
WorkerThreads(domain) ==
    LET RECURSIVE Sum(_)
        Sum(n) == IF n = 0 THEN 0
                  ELSE Sum(n - 1)
                       + (IF ptpClocks[n].domain_ = domain THEN ptpClocks[n].threads ELSE 0)
    IN  Sum(Len(ptpClocks))

PtpInit ==
    /\ globalEnabled_ = TRUE
    /\ clocks_ = <<>>
    /\ ptpClocks = <<>>
    /\ clocksMutex_ = [holder |-> "free", domain |-> 0]
    /\ ptpQuery = [flip |-> FALSE, pc |-> "idle", domain |-> 0, localTime |-> 0, ret |-> 0]
    /\ ptpTerminated = FALSE

SetPTPEnabled ==
    \E enabled \in BOOLEAN :
        /\ ~ptpTerminated
        /\ globalEnabled_' = enabled
        /\ UNCHANGED <<clocks_, ptpClocks, clocksMutex_, ptpQuery, ptpTerminated, notPtp>>

GetClockForDomain ==
    \E domain \in PtpDomains :
        /\ ~ptpTerminated
        /\ clocksMutex_.holder = "free"
        /\ IF domain \in DOMAIN clocks_
           THEN UNCHANGED <<clocks_, ptpClocks>>
           ELSE /\ Len(ptpClocks) < MaxClocks
                /\ ptpClocks' = Append(ptpClocks, NewClock(domain))
                /\ clocks_' = MapPut(clocks_, domain, Len(ptpClocks) + 1)
        /\ UNCHANGED <<globalEnabled_, clocksMutex_, ptpQuery, ptpTerminated, notPtp>>

\* removeClock up to the join of stop(): the lock is taken, running_ is
\* cleared; a clock that is not running is erased at once
RemoveClock ==
    \E domain \in DOMAIN clocks_ :
        LET c == clocks_[domain] IN
        /\ ~ptpTerminated
        /\ clocksMutex_.holder = "free"
        /\ IF ptpClocks[c].running_
           THEN /\ ptpClocks' = [ptpClocks EXCEPT ![c].running_ = FALSE]
                /\ clocksMutex_' = [holder |-> "remove", domain |-> domain]
                /\ UNCHANGED clocks_
           ELSE /\ clocks_' = MapErase(clocks_, domain)
                /\ UNCHANGED <<ptpClocks, clocksMutex_>>
        /\ UNCHANGED <<globalEnabled_, ptpQuery, ptpTerminated, notPtp>>

\* removeClock from the return of thread_.join() on: the entry is erased and
\* the lock released
RemoveClockJoin ==
    LET c == clocks_[clocksMutex_.domain] IN
    /\ ~ptpTerminated
    /\ clocksMutex_.holder = "remove"
    /\ ptpClocks[c].threads = 0
    /\ ptpClocks' = [ptpClocks EXCEPT ![c].joinable = FALSE]
    /\ clocks_' = MapErase(clocks_, clocksMutex_.domain)
    /\ clocksMutex_' = [holder |-> "free", domain |-> 0]
    /\ UNCHANGED <<globalEnabled_, ptpQuery, ptpTerminated, notPtp>>

\* PTPClock::start(), its test: if (running_) return false;
ClockStartTest ==
    \E c \in ClockObjects :
        /\ ~ptpTerminated
        /\ ~ptpClocks[c].running_
        /\ ptpClocks[c].starting < 2
        /\ ptpClocks' = [ptpClocks EXCEPT ![c].starting = @ + 1]
        /\ UNCHANGED <<globalEnabled_, clocks_, clocksMutex_, ptpQuery, ptpTerminated, notPtp>>

\* PTPClock::start(), the rest: running_ = true; thread_ = std::thread(...).
\* The thread is created before it is assigned, and assigning to a joinable
\* std::thread calls std::terminate
ClockStartStore ==
    \E c \in ClockObjects :
        /\ ~ptpTerminated
        /\ ptpClocks[c].starting > 0
        /\ ptpClocks' = [ptpClocks EXCEPT ![c].running_ = TRUE,
                                          ![c].threads = @ + 1,
                                          ![c].joinable = TRUE,
                                          ![c].starting = @ - 1]
        /\ ptpTerminated' = ptpClocks[c].joinable
        /\ UNCHANGED <<globalEnabled_, clocks_, clocksMutex_, ptpQuery, notPtp>>

\* PTPClock::stop() up to the join, called on the object by a holder
ClockStopCall ==
    \E c \in ClockObjects :
        /\ ~ptpTerminated
        /\ ptpClocks[c].running_
        /\ ptpClocks[c].stopping = 0
        /\ ~(clocksMutex_.holder = "remove" /\ clocks_[clocksMutex_.domain] = c)
        /\ ptpClocks' = [ptpClocks EXCEPT ![c].running_ = FALSE,
                                          ![c].stopping = IF ptpClocks[c].joinable
                                                          THEN 1 ELSE 0]
        /\ UNCHANGED <<globalEnabled_, clocks_, clocksMutex_, ptpQuery, ptpTerminated, notPtp>>

\* thread_.join() of stop() returns
ClockStopJoin ==
    \E c \in ClockObjects :
        /\ ~ptpTerminated
        /\ ptpClocks[c].stopping > 0
        /\ ptpClocks[c].threads = 0
        /\ ptpClocks' = [ptpClocks EXCEPT ![c].joinable = FALSE, ![c].stopping = 0]
        /\ UNCHANGED <<globalEnabled_, clocks_, clocksMutex_, ptpQuery, ptpTerminated, notPtp>>

\* ptpThread leaves while (running_)
PtpThreadExit ==
    \E c \in ClockObjects :
        /\ ~ptpTerminated
        /\ ptpClocks[c].threads > 0
        /\ ~ptpClocks[c].running_
        /\ ptpClocks[c].pc = "idle"
        /\ ptpClocks' = [ptpClocks EXCEPT ![c].threads = @ - 1]
        /\ UNCHANGED <<globalEnabled_, clocks_, clocksMutex_, ptpQuery, ptpTerminated, notPtp>>

\* updateLockStatus, its first store: locked_ = true
UpdateLockStatus ==
    \E c \in ClockObjects :
        /\ ~ptpTerminated
        /\ ptpClocks[c].threads > 0
        /\ ptpClocks[c].running_
        /\ ptpClocks[c].pc = "idle"
        /\ ~ptpClocks[c].locked_
        /\ ptpClocks' = [ptpClocks EXCEPT ![c].locked_ = TRUE, ![c].pc = "offset"]
        /\ UNCHANGED <<globalEnabled_, clocks_, clocksMutex_, ptpQuery, ptpTerminated, notPtp>>

\* updateLockStatus, its second store: offsetNs_ = 100
UpdateLockStatusOffset ==
    \E c \in ClockObjects :
        /\ ~ptpTerminated
        /\ ptpClocks[c].pc = "offset"
        /\ ptpClocks' = [ptpClocks EXCEPT ![c].offsetNs_ = LockedOffsetNs, ![c].pc = "idle"]
        /\ UNCHANGED <<globalEnabled_, clocks_, clocksMutex_, ptpQuery, ptpTerminated, notPtp>>

\* getTimeForDomain(domain) up to the call of it->second->getTime(): the
\* fallback clock is read when the offsets are disabled, the domain has no
\* clock or its clock is not locked
GetTimeForDomain ==
    \E domain \in PtpDomains, localTime \in 0 .. MaxLocalTime :
        /\ ~ptpTerminated
        /\ ptpQuery.pc = "idle"
        /\ globalEnabled_ => clocksMutex_.holder = "free"
        /\ IF globalEnabled_ /\ domain \in DOMAIN clocks_
                /\ ptpClocks[clocks_[domain]].locked_
           THEN /\ ptpQuery' = [flip |-> ptpQuery.flip, pc |-> "getTime", domain |-> domain,
                                localTime |-> localTime, ret |-> ptpQuery.ret]
                /\ clocksMutex_' = [holder |-> "getTime", domain |-> domain]
           ELSE /\ ptpQuery' = [flip |-> ~ptpQuery.flip, pc |-> "idle", domain |-> domain,
                                localTime |-> localTime, ret |-> localTime]
                /\ UNCHANGED clocksMutex_
        /\ UNCHANGED <<globalEnabled_, clocks_, ptpClocks, ptpTerminated, notPtp>>

\* getTimeForDomain: it->second->getTime() and the return
GetTimeForDomainRead ==
    /\ ~ptpTerminated
    /\ ptpQuery.pc = "getTime"
    /\ ptpQuery' = [ptpQuery EXCEPT !.flip = ~@, !.pc = "idle",
                        !.ret = getTime(ptpClocks[clocks_[ptpQuery.domain]],
                                        ptpQuery.localTime)]
    /\ clocksMutex_' = [holder |-> "free", domain |-> 0]
    /\ UNCHANGED <<globalEnabled_, clocks_, ptpClocks, ptpTerminated, notPtp>>

\* The manager's calls and the worker threads, no holder calling start() or
\* stop() on a clock
PtpManagerNext ==
    \/ SetPTPEnabled \/ GetClockForDomain \/ RemoveClock \/ RemoveClockJoin
    \/ PtpThreadExit \/ UpdateLockStatus \/ UpdateLockStatusOffset
    \/ GetTimeForDomain \/ GetTimeForDomainRead

PtpNext ==
    \/ SetPTPEnabled \/ GetClockForDomain \/ RemoveClock \/ RemoveClockJoin
    \/ ClockStartTest \/ ClockStartStore \/ ClockStopCall \/ ClockStopJoin
    \/ PtpThreadExit \/ UpdateLockStatus \/ UpdateLockStatusOffset
    \/ GetTimeForDomain \/ GetTimeForDomainRead

(***************************************************************************)
(* SDPParser: generate and parseString.  A text is a sequence of lines, a  *)
(* line a sequence of tokens: the words and numbers written, and the       *)
(* separators " ", ":" and "/" between them.  A number is written in       *)
(* decimal and read back from its digits.                                  *)
(***************************************************************************)
notSdp == <<coreVars, ptpVars, admitVars, laneVars>>

\* Numbers the descriptors and the clock of generateOriginLine hold
SdpNumbers == {0, 1, 2, 7, 32, 48, 96, 5004, 48000, 1700}

\* The token a string is written as: nothing for the empty string
Tok(str) == IF str = "" THEN <<>> ELSE <<str>>

\* The string a run of tokens without separators is
Text(piece) == IF piece = <<>> THEN "" ELSE piece[1]

\* std::stoull / std::stoul / std::stoi: the number, or -1 where they throw
stoull(piece) ==
    IF Len(piece) = 1 /\ \E n \in SdpNumbers : ToString(n) = piece[1]
    THEN CHOOSE n \in SdpNumbers : ToString(n) = piece[1]
    ELSE -1

\* splitString(str, delimiter): std::getline until the end of the string, so
\* a piece after the last delimiter exists only when it is not empty
splitString(str, delimiter) ==
    LET RECURSIVE From(_, _, _)
        From(rest, part, parts) ==
            IF rest = <<>> THEN (IF part = <<>> THEN parts ELSE Append(parts, part))
            ELSE IF Head(rest) = delimiter
                 THEN From(Tail(rest), <<>>, Append(parts, part))
                 ELSE From(Tail(rest), Append(part, Head(rest)), parts)
    IN  From(str, <<>>, <<>>)

\* str.find(ch): the position of the first ch, 0 for npos
find(str, ch) ==
    IF \E i \in 1..Len(str) : str[i] = ch
    THEN CHOOSE i \in 1..Len(str) : str[i] = ch /\ \A j \in 1..(i - 1) : str[j] # ch
    ELSE 0

\* SDPSession with its default member initialisers
DefaultSession ==
    [sessionName |-> "", sessionInfo |-> "", sessionID |-> 0, sessionVersion |-> 0,
     originUsername |-> "-", originAddress |-> "", originAddressType |-> "IN",
     originNetworkType |-> "IP4", connectionAddress |-> "", connectionType |-> "IN",
     connectionNetwork |-> "IP4", ttl |-> 32, timeStart |-> 0, timeStop |-> 0,
     mediaType |-> "audio", port |-> 5004, transport |-> "RTP/AVP", payloadType |-> 96,
     encoding |-> "L24", sampleRate |-> 48000, numChannels |-> 2, ptime |-> 1,
     framecount |-> 48, sourceAddress |-> "", ptpDomain |-> 0, ptpMasterMAC |-> "",
     mediaClockType |-> "direct=0", direction |-> "recvonly"]

\* SDPSession::isValid
sessionIsValid(session) ==
    /\ session.sessionName # ""
    /\ session.connectionAddress # ""
    /\ session.port # 0
    /\ session.encoding \in {"L16", "L24", "AM824"}
    /\ session.sampleRate # 0
    /\ session.numChannels # 0

generateOriginLine(session, time) ==
    LET sessId == IF session.sessionID = 0 THEN time ELSE session.sessionID
    IN  <<"o=">> \o Tok(session.originUsername)
        \o <<" ", ToString(sessId), " ", ToString(session.sessionVersion), " ">>
        \o Tok(session.originNetworkType) \o <<" ">> \o Tok(session.originAddressType)
        \o <<" ">> \o Tok(session.originAddress)

generateConnectionLine(session) ==
    <<"c=">> \o Tok(session.connectionType) \o <<" ">> \o Tok(session.connectionNetwork)
    \o <<" ">> \o Tok(session.connectionAddress)
    \o (IF session.ttl # 0 THEN <<"/", ToString(session.ttl)>> ELSE <<>>)

generateMediaLine(session) ==
    <<"m=">> \o Tok(session.mediaType) \o <<" ", ToString(session.port), " ">>
    \o Tok(session.transport) \o <<" ", ToString(session.payloadType)>>

generateAttributes(session) ==
    << <<"a=", "rtpmap", ":", ToString(session.payloadType), " ">> \o Tok(session.encoding)
          \o <<"/", ToString(session.sampleRate), "/", ToString(session.numChannels)>>,
       <<"a=", "ptime", ":", ToString(session.ptime)>>,
       <<"a=", "framecount", ":", ToString(session.framecount)>>,
       <<"a=">> \o Tok(session.direction) >>
    \o (IF session.sourceAddress # ""
        THEN << <<"a=", "source-filter", ":", " ", "incl", " ", "IN", " ", "IP4", " ">>
                  \o Tok(session.connectionAddress) \o <<" ", session.sourceAddress>> >>
        ELSE <<>>)
    \o (IF session.ptpDomain >= 0 /\ session.ptpMasterMAC # ""
        THEN << <<"a=", "ts-refclk", ":", "ptp=IEEE1588-2008", ":", session.ptpMasterMAC,
                  ":", "domain-nmbr=", ToString(session.ptpDomain)>> >>
        ELSE <<>>)
    \o (IF session.mediaClockType # ""
        THEN << <<"a=", "mediaclk", ":", session.mediaClockType>> >>
        ELSE <<>>)

\* SDPParser::generate; time is what std::time(nullptr) returns
generate(session, time) ==
    << <<"v=", "0">>, generateOriginLine(session, time) >>
    \o << <<"s=">> \o Tok(session.sessionName) >>
    \o (IF session.sessionInfo # "" THEN << <<"i=", session.sessionInfo>> >> ELSE <<>>)
    \o << generateConnectionLine(session),
          <<"t=", ToString(session.timeStart), " ", ToString(session.timeStop)>>,
          generateMediaLine(session) >>
    \o generateAttributes(session)

\* The parse functions return [ok, session]
parseOriginLine(line, session) ==
    LET parts == splitString(line, " ") IN
    IF Len(parts) < 6 \/ stoull(parts[2]) < 0 \/ stoull(parts[3]) < 0
    THEN [ok |-> FALSE, session |-> session]
    ELSE [ok |-> TRUE,
          session |-> [session EXCEPT !.originUsername = Text(parts[1]),
                                      !.sessionID = stoull(parts[2]),
                                      !.sessionVersion = stoull(parts[3]),
                                      !.originNetworkType = Text(parts[4]),
                                      !.originAddressType = Text(parts[5]),
                                      !.originAddress = Text(parts[6])]]

parseConnectionLine(line, session) ==
    LET parts == splitString(line, " ") IN
    IF Len(parts) < 3 THEN [ok |-> FALSE, session |-> session]
    ELSE LET addrPart == parts[3]
             slashPos == find(addrPart, "/")
             ttl == stoull(SubSeq(addrPart, slashPos + 1, Len(addrPart)))
         IN  [ok |-> TRUE,
              session |-> [session EXCEPT
                  !.connectionType = Text(parts[1]),
                  !.connectionNetwork = Text(parts[2]),
                  !.connectionAddress =
                      IF slashPos # 0 THEN Text(SubSeq(addrPart, 1, slashPos - 1))
                      ELSE Text(addrPart),
                  !.ttl = IF slashPos = 0 THEN @ ELSE IF ttl < 0 THEN 32 ELSE ttl]]

parseTimingLine(line, session) ==
    LET parts == splitString(line, " ") IN
    IF Len(parts) < 2 \/ stoull(parts[1]) < 0 \/ stoull(parts[2]) < 0
    THEN [ok |-> FALSE, session |-> session]
    ELSE [ok |-> TRUE, session |-> [session EXCEPT !.timeStart = stoull(parts[1]),
                                                   !.timeStop = stoull(parts[2])]]

parseMediaLine(line, session) ==
    LET parts == splitString(line, " ") IN
    IF Len(parts) < 4 \/ stoull(parts[2]) < 0 \/ stoull(parts[4]) < 0
    THEN [ok |-> FALSE, session |-> session]
    ELSE [ok |-> TRUE, session |-> [session EXCEPT !.mediaType = Text(parts[1]),
                                                   !.port = stoull(parts[2]),
                                                   !.transport = Text(parts[3]),
                                                   !.payloadType = stoull(parts[4])]]

parseRTPMapAttribute(value, session) ==
    LET parts == splitString(value, " ")
        formatParts == IF Len(parts) < 2 THEN <<>> ELSE splitString(parts[2], "/")
    IN  IF Len(parts) < 2 \/ Len(formatParts) < 2 \/ stoull(formatParts[2]) < 0
           \/ (Len(formatParts) >= 3 /\ stoull(formatParts[3]) < 0)
        THEN [ok |-> FALSE, session |-> session]
        ELSE [ok |-> TRUE,
              session |-> [session EXCEPT
                  !.encoding = Text(formatParts[1]),
                  !.sampleRate = stoull(formatParts[2]),
                  !.numChannels = IF Len(formatParts) >= 3 THEN stoull(formatParts[3])
                                  ELSE @]]

\* parts[4] of the value split at spaces, counted from 0
parseSourceFilterAttribute(value, session) ==
    LET parts == splitString(value, " ") IN
    IF Len(parts) >= 5
    THEN [ok |-> TRUE, session |-> [session EXCEPT !.sourceAddress = Text(parts[5])]]
    ELSE [ok |-> FALSE, session |-> session]

\* The regular expression ptp=IEEE1588-2008:(mac):domain-nmbr=(digits)
parsePTPRefClockAttribute(value, session) ==
    IF Len(value) = 6 /\ value[1] = "ptp=IEEE1588-2008" /\ value[2] = ":"
       /\ value[4] = ":" /\ value[5] = "domain-nmbr=" /\ stoull(<<value[6]>>) >= 0
    THEN [ok |-> TRUE, session |-> [session EXCEPT !.ptpMasterMAC = value[3],
                                                   !.ptpDomain = stoull(<<value[6]>>)]]
    ELSE [ok |-> FALSE, session |-> session]

parseAttributeLine(line, session) ==
    LET colonPos == find(line, ":")
        attribute == IF colonPos # 0 THEN Text(SubSeq(line, 1, colonPos - 1)) ELSE Text(line)
        value == IF colonPos # 0 THEN SubSeq(line, colonPos + 1, Len(line)) ELSE <<>>
    IN  CASE attribute = "rtpmap" -> parseRTPMapAttribute(value, session)
          [] attribute = "ptime" ->
                IF stoull(value) < 0 THEN [ok |-> FALSE, session |-> session]
                ELSE [ok |-> TRUE, session |-> [session EXCEPT !.ptime = stoull(value)]]
          [] attribute = "framecount" ->
                IF stoull(value) < 0 THEN [ok |-> FALSE, session |-> session]
                ELSE [ok |-> TRUE, session |-> [session EXCEPT !.framecount = stoull(value)]]
          [] attribute = "source-filter" -> parseSourceFilterAttribute(value, session)
          [] attribute = "ts-refclk" -> parsePTPRefClockAttribute(value, session)
          [] attribute = "mediaclk" ->
                [ok |-> TRUE, session |-> [session EXCEPT !.mediaClockType = Text(value)]]
          [] attribute \in {"recvonly", "sendonly", "sendrecv", "inactive"} ->
                [ok |-> TRUE, session |-> [session EXCEPT !.direction = attribute]]
          [] OTHER -> [ok |-> TRUE, session |-> session]

\* SDPParser::parseString: [ok, session], ok FALSE for std::nullopt
parseString(sdp) ==
    LET RECURSIVE Lines(_, _)
        Lines(n, session) ==
            IF n > Len(sdp) THEN [ok |-> sessionIsValid(session), session |-> session]
            ELSE LET type == sdp[n][1]
                     value == Tail(sdp[n])
                     r == CASE type = "o=" -> parseOriginLine(value, session)
                            [] type = "s=" ->
                                  [ok |-> TRUE,
                                   session |-> [session EXCEPT !.sessionName = Text(value)]]
                            [] type = "i=" ->
                                  [ok |-> TRUE,
                                   session |-> [session EXCEPT !.sessionInfo = Text(value)]]
                            [] type = "c=" -> parseConnectionLine(value, session)
                            [] type = "t=" -> parseTimingLine(value, session)
                            [] type = "m=" -> parseMediaLine(value, session)
                            [] type = "a=" -> parseAttributeLine(value, session)
                            [] OTHER -> [ok |-> TRUE, session |-> session]
                 IN  IF r.ok THEN Lines(n + 1, r.session) ELSE r
    IN  Lines(1, DefaultSession)

\* Descriptors that pass validation: the defaults with a name, an address
\* and every combination of the optional fields
SdpSessions ==
    { [DefaultSession EXCEPT !.sessionName = "Stream", !.connectionAddress = "239.69.83.171",
                             !.sessionID = id, !.originAddress = origin, !.ttl = ttl,
                             !.sourceAddress = source, !.ptpDomain = domain,
                             !.ptpMasterMAC = mac, !.mediaClockType = clk,
                             !.sessionInfo = info] :
        id \in {0, 7}, origin \in {"", "192.168.1.100"}, ttl \in {0, 32},
        source \in {"", "192.168.1.100"}, domain \in {-1, 0, 1},
        mac \in {"", "00-1B-21-AC-B5-4F"}, clk \in {"", "direct=0"},
        info \in {"", "Info"} }

SdpInit ==
    sdpTrip = [session |-> DefaultSession, text |-> <<>>,
               parsed |-> [ok |-> FALSE, session |-> DefaultSession]]

\* parseString(generate(session))
GenerateThenParse ==
    \E session \in SdpSessions, time \in {1700} :
        /\ sessionIsValid(session)
        /\ sdpTrip' = [session |-> session, text |-> generate(session, time),
                       parsed |-> parseString(generate(session, time))]
        /\ UNCHANGED notSdp

SdpNext == GenerateThenParse

(***************************************************************************)
(* RTPReceiver: processPacket with its decoding and the writes into the    *)
(* device input rings.                                                     *)
(***************************************************************************)
\* sdp_.numChannels and mapping_.deviceChannelStart of the receiver
RxChannels == 2
RxDeviceChannelStart == 0
\* constexpr kMaxFrames of mapChannelsToDevice, the literal 512 of the decoders
kMaxFrames == 512
\* audioBuffer_.size(), set by the constructor
audioBufferSize == kMaxFrames * RxChannels

\* SPSCRingBuffer::write(channelBuffer, frameCount) on a ring holding fill samples
SamplesWritten(fill, frameCount) == Min(frameCount, InputRingFrames - fill)

\* frameCount of decodeL16 / decodeL24: payloadSize / bytesPerFrame
DecodedFrameCount(encoding, payloadSize) ==
    payloadSize \div (BytesPerSample(encoding) * RxChannels)

\* mapChannelsToDevice(interleavedAudio, frameCount): the rings and
\* stats_.underruns afterwards
mapChannelsToDevice(rings, underruns, frameCount) ==
    IF RxDeviceChannelStart + RxChannels > 128 \/ frameCount > kMaxFrames
    THEN [rings |-> rings, underruns |-> underruns]
    ELSE LET mapped == RxDeviceChannelStart..(RxDeviceChannelStart + RxChannels - 1)
         IN  [rings |-> [ch \in IOChannels |->
                            IF ch \in mapped
                            THEN rings[ch] + SamplesWritten(rings[ch], frameCount)
                            ELSE rings[ch]],
              underruns |->
                  IF \E ch \in mapped : SamplesWritten(rings[ch], frameCount) < frameCount
                  THEN underruns + 1 ELSE underruns]

\* decodeL16 / decodeL24(payload, payloadSize): the rings, stats_.underruns and
\* stats_.malformedPackets afterwards
decode(encoding, payloadSize, rings, underruns, malformedPackets) ==
    LET frameCount == DecodedFrameCount(encoding, payloadSize)
    IN  IF frameCount = 0 \/ frameCount > 512
        THEN [rings |-> rings, underruns |-> underruns,
              malformedPackets |-> malformedPackets]
        ELSE IF frameCount * RxChannels > audioBufferSize
        THEN [rings |-> rings, underruns |-> underruns,
              malformedPackets |-> malformedPackets + 1]
        ELSE LET m == mapChannelsToDevice(rings, underruns, frameCount)
             IN  [rings |-> m.rings, underruns |-> m.underruns,
                  malformedPackets |-> malformedPackets]

RxEncodings == {"L16", "L24"}
\* Frames carried by an arriving payload
RxFrameChoices == {0, 1, InputRingFrames, kMaxFrames + 1}
\* Payload sizes: whole frames, or a single byte that is less than one frame
RxPayloadSizes(encoding) ==
    {1} \cup { f * BytesPerSample(encoding) * RxChannels : f \in RxFrameChoices \ {0} }

\* isConnected compares now - lastPacketTime_ with 1000 ms, so the time point
\* is held as the milliseconds elapsed since it, counted up to one past 1000
kConnectedTimeoutMs == 1000
\* Milliseconds the steady clock advances in one step
TickMs == 250
ElapseMs(elapsed) == Min(elapsed + TickMs, kConnectedTimeoutMs + 1)

RcvInit ==
    /\ lastPacketTime_ = kConnectedTimeoutMs + 1
    /\ rxUnderruns = 0
    /\ rxLast = [encoding |-> "L24", payloadSize |-> 0]
    /\ rcvSinceValid = kConnectedTimeoutMs + 1
    /\ rcvRunning = FALSE
    /\ rtpSession_ = FALSE
    /\ receiveThread_ = "none"
    /\ rcvCaller = "idle"
    /\ rcvStops = 0
    /\ rcvJoins = 0
    /\ rcvCloses = 0
    /\ rcvQuery = [flip |-> FALSE, ret |-> FALSE]
    /\ rcvFresh = TRUE

\* processPacket on the next in-order packet that passes validatePacket and
\* the size checks, with everything it calls: the connection state,
\* updateStats, the decoder and mapChannelsToDevice
ReceivePacket ==
    \E encoding \in RxEncodings :
      \E payloadSize \in RxPayloadSizes(encoding) :
        LET sequenceNumber == ExpectedSeq(lastSequenceNumber_)
            counted == updateStats(rxStats, lastSequenceNumber_, sequenceNumber,
                                   payloadSize)
            d == decode(encoding, payloadSize, inputBuffers_, rxUnderruns,
                        counted.malformedPackets)
        IN  /\ Len(rxSeqs) + rxStats.malformedPackets < MaxPackets
            /\ connected_' = TRUE
            /\ lastPacketTime_' = 0
            /\ rxStats' = [counted EXCEPT !.malformedPackets = d.malformedPackets]
            /\ lastSequenceNumber_' = sequenceNumber
            /\ rxSeqs' = Append(rxSeqs, sequenceNumber)
            /\ rxLast' = [encoding |-> encoding, payloadSize |-> payloadSize]
            /\ inputBuffers_' = d.rings
            /\ rxUnderruns' = d.underruns
            /\ rcvSinceValid' = 0
            /\ UNCHANGED <<inputUnderruns_, ioCallbacks, ioLast, lifeVars, notReceive>>

DecodeNext == ReceivePacket \/ ProcessMalformed

(***************************************************************************)
(* RTPReceiver: start / stop on the controlling thread, receiveLoop on the *)
(* receive thread, isConnected from any thread, and the steady clock.      *)
(***************************************************************************)
MaxStops == 2

\* A variant of isConnected without the elapsed-time test.
isConnected_NoTimeout(connected, elapsed) == connected

\* isConnected(): connected_ and now - lastPacketTime_ below 1000 ms
isConnected(connected, elapsed) ==
    IF ~connected THEN FALSE ELSE elapsed < 1000

\* A variant of the guard of stop() that returns from every call.
StopReturnsEarly_Always(running) == TRUE

\* if (!running_) return;  at the top of stop()
StopReturnsEarly(running) == ~running

\* A variant of the loop condition that does not look at running_.
WhileRunning_Forever(running) == TRUE

\* while (running_)  of receiveLoop
WhileRunning(running) == running

notLife == <<lastPacketTime_, rxUnderruns, rxLast, rcvSinceValid, rxVars, ioVars,
            notReceive>>

\* start() returning true: not running and no session, the session is
\* created and configured and the receive thread started.  (A start() that
\* returns false leaves the receiver as it was.)
RcvStart ==
    /\ rcvCaller = "idle"
    /\ ~(rcvRunning \/ rtpSession_)
    /\ rtpSession_' = TRUE
    /\ rcvRunning' = TRUE
    /\ receiveThread_' = "loop"
    /\ rcvStops' = 0
    /\ rcvJoins' = 0
    /\ rcvCloses' = 0
    /\ rcvFresh' = TRUE
    /\ UNCHANGED <<rcvCaller, rcvQuery, notLife>>

\* stop() up to the join: returns at once unless running_, else clears running_
RcvStopCall ==
    /\ rcvCaller = "idle"
    /\ rcvStops < MaxStops
    /\ IF StopReturnsEarly(rcvRunning)
       THEN /\ rcvStops' = rcvStops + 1
            /\ UNCHANGED <<rcvRunning, rcvCaller>>
       ELSE /\ rcvRunning' = FALSE
            /\ rcvCaller' = "join"
            /\ UNCHANGED rcvStops
    /\ UNCHANGED <<rtpSession_, receiveThread_, rcvJoins, rcvCloses, rcvQuery, rcvFresh,
                   notLife>>

\* stop(): if (receiveThread_.joinable()) receiveThread_.join(), which returns
\* once receiveLoop has returned
RcvStopJoin ==
    /\ rcvCaller = "join"
    /\ receiveThread_ \in {"none", "exited"}
    /\ IF receiveThread_ = "exited"
       THEN rcvJoins' = rcvJoins + 1
       ELSE UNCHANGED rcvJoins
    /\ receiveThread_' = "none"
    /\ rcvCaller' = "destroy"
    /\ UNCHANGED <<rcvRunning, rtpSession_, rcvStops, rcvCloses, rcvQuery, rcvFresh,
                   notLife>>

\* stop() after the join: the session is destroyed, connected_ cleared, and
\* the call returns
RcvStopDestroy ==
    /\ rcvCaller = "destroy"
    /\ IF rtpSession_
       THEN rcvCloses' = rcvCloses + 1
       ELSE UNCHANGED rcvCloses
    /\ rtpSession_' = FALSE
    /\ connected_' = FALSE
    /\ rcvCaller' = "idle"
    /\ rcvStops' = rcvStops + 1
    /\ UNCHANGED <<rcvRunning, receiveThread_, rcvJoins, rcvQuery, rcvFresh, lastPacketTime_,
                   rxUnderruns, rxLast, rcvSinceValid, rxStats, lastSequenceNumber_,
                   rxSeqs, ioVars, notReceive>>

\* receiveLoop at its while test: returns when running_ is clear; otherwise
\* polls the session, and a packet that arrived enters processPacket, which
\* counts it as malformed or sets connected_.  (An empty poll sleeps and
\* changes nothing.)
ReceiveLoop ==
    /\ receiveThread_ = "loop"
    /\ IF ~WhileRunning(rcvRunning)
       THEN /\ receiveThread_' = "exited"
            /\ UNCHANGED <<connected_, rxStats>>
       ELSE /\ Len(rxSeqs) + rxStats.malformedPackets < MaxPackets
            /\ \E valid \in BOOLEAN :
                IF valid
                THEN /\ connected_' = TRUE
                     /\ receiveThread_' = "packet"
                     /\ UNCHANGED rxStats
                ELSE /\ rxStats' = [rxStats EXCEPT !.malformedPackets = @ + 1]
                     /\ UNCHANGED <<connected_, receiveThread_>>
    /\ UNCHANGED <<rcvRunning, rtpSession_, rcvCaller, rcvStops, rcvJoins, rcvCloses,
                   rcvQuery, rcvFresh, lastPacketTime_, rxUnderruns, rxLast, rcvSinceValid,
                   lastSequenceNumber_, rxSeqs, ioVars, notReceive>>

\* processPacket from the store of lastPacketTime_ on: updateStats, the
\* decoder and mapChannelsToDevice, for a packet of L24 audio with the given
\* sequence number; then back to the while test
processPacket(sequenceNumber) ==
    LET counted == updateStats(rxStats, lastSequenceNumber_, sequenceNumber,
                               RxPayloadSize)
        d == decode("L24", RxPayloadSize, inputBuffers_, rxUnderruns,
                    counted.malformedPackets)
    IN  /\ receiveThread_ = "packet"
        /\ lastPacketTime_' = 0
        /\ rcvSinceValid' = 0
        /\ rxStats' = [counted EXCEPT !.malformedPackets = d.malformedPackets]
        /\ lastSequenceNumber_' = sequenceNumber
        /\ rxSeqs' = Append(rxSeqs, sequenceNumber)
        /\ rxLast' = [encoding |-> "L24", payloadSize |-> RxPayloadSize]
        /\ inputBuffers_' = d.rings
        /\ rxUnderruns' = d.underruns
        /\ receiveThread_' = "loop"
        /\ rcvFresh' = FALSE
        /\ UNCHANGED <<connected_, rcvRunning, rtpSession_, rcvCaller, rcvStops,
                       rcvJoins, rcvCloses, rcvQuery, inputUnderruns_, ioCallbacks,
                       ioLast, notReceive>>

\* The sender's next packet arrives: no packet was lost or reordered
ReceiveLoopStore == processPacket(ExpectedSeq(lastSequenceNumber_))

\* A packet with any sequence number arrives: packets sent while the
\* receiver was stopped, or lost on the network, never reach it
ReceiveLoopStoreAny == \E sequenceNumber \in SeqChoices : processPacket(sequenceNumber)

\* isConnected() called from a thread of the host
IsConnected ==
    /\ rcvQuery' = [flip |-> ~rcvQuery.flip,
                    ret |-> isConnected(connected_, lastPacketTime_)]
    /\ UNCHANGED <<rcvRunning, rtpSession_, receiveThread_, rcvCaller, rcvStops,
                   rcvJoins, rcvCloses, rcvFresh, notLife>>

\* The steady clock advances
RcvTick ==
    /\ ~(lastPacketTime_ = kConnectedTimeoutMs + 1
         /\ rcvSinceValid = kConnectedTimeoutMs + 1)
    /\ lastPacketTime_' = ElapseMs(lastPacketTime_)
    /\ rcvSinceValid' = ElapseMs(rcvSinceValid)
    /\ UNCHANGED <<rxUnderruns, rxLast, lifeVars, rxVars, ioVars, notReceive>>

ReceiverNext ==
    \/ RcvStart \/ RcvStopCall \/ RcvStopJoin \/ RcvStopDestroy
    \/ ReceiveLoop \/ ReceiveLoopStore \/ IsConnected \/ RcvTick

\* start, stop and the receive thread, on a network that loses packets
RestartNext ==
    \/ RcvStart \/ RcvStopCall \/ RcvStopJoin \/ RcvStopDestroy
    \/ ReceiveLoop \/ ReceiveLoopStoreAny

(***************************************************************************)
(* Specifications                                                          *)
(***************************************************************************)
(***************************************************************************)
(* One stream across its rings: RTPReceiver::mapChannelsToDevice writes    *)
(* the rings one after another on the receive thread while                 *)
(* AES67IOHandler::processInput reads them on the audio thread.  The rings *)
(* hold the samples themselves, each named by the packet and the frame it  *)
(* came from.                                                              *)
(***************************************************************************)
notLanes == <<coreVars, ptpVars, sdpVars, admitVars>>

\* The device channels mapping_ gives the stream
MappedChannels == RxDeviceChannelStart..(RxDeviceChannelStart + RxChannels - 1)

\* The 0.0f that processInput pads a short read with
Silence == <<0, 0>>

\* channelBuffer after the extraction loop of mapChannelsToDevice: the
\* frames of the packet for one stream channel
channelBuffer(packet, frameCount) ==
    [i \in 1..frameCount |-> <<packet, i - 1>>]

\* SPSCRingBuffer::write(data, count) on a ring holding the samples ring
ringWrite(ring, data) ==
    ring \o SubSeq(data, 1, SamplesWritten(Len(ring), Len(data)))

\* SPSCRingBuffer::read(data, count): the samples handed out and the ring
\* afterwards
ringRead(ring, count) ==
    LET toRead == SamplesRead(Len(ring), count)
    IN  [data |-> SubSeq(ring, 1, toRead),
         ring |-> SubSeq(ring, toRead + 1, Len(ring))]

\* channelBuffer of processInput for one channel: what the ring returned,
\* then silence up to frameCount
paddedRead(ring, frameCount) ==
    LET r == ringRead(ring, frameCount)
    IN  r.data \o [i \in 1..(frameCount - Len(r.data)) |-> Silence]

\* Frame counts the audio callback asks for
LaneFrameCounts == {1, SamplesPerPacket}

LanesInit ==
    /\ laneRings = [ch \in MappedChannels |-> <<>>]
    /\ mapLoop = [packet |-> 0, streamChannel |-> RxChannels, hadUnderrun |-> FALSE]
    /\ laneUnderruns = 0
    /\ laneOut = [callbacks |-> 0, midCopy |-> FALSE, underruns |-> 0,
                  outputData |-> [ch \in MappedChannels |-> <<>>]]

\* mapChannelsToDevice(interleavedAudio, frameCount) is entered with the
\* next packet's samples: the two range checks, then the loop starts
MapChannelsEnter ==
    /\ mapLoop.streamChannel = RxChannels
    /\ mapLoop.packet < MaxPackets
    /\ mapLoop' =
         [packet |-> mapLoop.packet + 1,
          streamChannel |->
              IF RxDeviceChannelStart + RxChannels > 128
                 \/ SamplesPerPacket > kMaxFrames
              THEN RxChannels ELSE 0,
          hadUnderrun |-> FALSE]
    /\ UNCHANGED <<laneRings, laneUnderruns, laneOut, notLanes>>

\* One iteration of the channel loop of mapChannelsToDevice
MapChannelsWrite ==
    /\ mapLoop.streamChannel < RxChannels
    /\ LET deviceChannel == RxDeviceChannelStart + mapLoop.streamChannel
           data == channelBuffer(mapLoop.packet, SamplesPerPacket)
           nWritten == SamplesWritten(Len(laneRings[deviceChannel]), SamplesPerPacket)
           counts == nWritten < SamplesPerPacket /\ ~mapLoop.hadUnderrun
       IN  /\ laneRings' = [laneRings EXCEPT
                               ![deviceChannel] = ringWrite(@, data)]
           /\ laneUnderruns' = IF counts THEN laneUnderruns + 1 ELSE laneUnderruns
           /\ mapLoop' = [mapLoop EXCEPT
                             !.streamChannel = @ + 1,
                             !.hadUnderrun = @ \/ counts]
    /\ UNCHANGED <<laneOut, notLanes>>

\* processInput(outputData, frameCount, 128) between two ring writes of the
\* receive thread, seen on the stream's channels
ProcessInputLanes ==
    \E frameCount \in LaneFrameCounts :
        /\ laneOut.callbacks < MaxCallbacks
        /\ laneRings' = [ch \in MappedChannels |->
                            ringRead(laneRings[ch], frameCount).ring]
        /\ laneOut' =
             [callbacks |-> laneOut.callbacks + 1,
              midCopy |-> mapLoop.streamChannel < RxChannels,
              underruns |->
                  IF \E ch \in MappedChannels :
                         SamplesRead(Len(laneRings[ch]), frameCount) < frameCount
                  THEN laneOut.underruns + 1 ELSE laneOut.underruns,
              outputData |-> [ch \in MappedChannels |->
                                 paddedRead(laneRings[ch], frameCount)]]
        /\ UNCHANGED <<mapLoop, laneUnderruns, notLanes>>

LanesNext == MapChannelsEnter \/ MapChannelsWrite \/ ProcessInputLanes

Init ==
    RouterInit /\ RingInit /\ MgrInit /\ TxInit /\ RxInit /\ IOInit /\ SapInit
    /\ RcvInit /\ TxConfigInit /\ WireInit /\ PtpInit /\ SdpInit /\ AdmitInit
    /\ LanesInit

SpecDecode == Init /\ [][DecodeNext]_vars

SpecReceiver == Init /\ [][ReceiverNext]_vars

\* The receive thread and the thread inside stop() are scheduled: neither
\* blocks except stop() in join, which returns once receiveLoop has returned
SpecReceiverLive ==
    SpecReceiver /\ WF_vars(ReceiveLoop) /\ WF_vars(ReceiveLoopStore)
    /\ WF_vars(RcvStopJoin) /\ WF_vars(RcvStopDestroy)

SpecRouter == Init /\ [][RouterNext]_vars

SpecRing == Init /\ [][RingNext]_vars

SpecManager == Init /\ [][MgrNext]_vars

SpecManagerRate == Init /\ [][MgrRateNext]_vars

SpecTx == Init /\ [][TxNext]_vars

SpecTxWrap == Init /\ [][TxWrapNext]_vars

SpecTxConfig == Init /\ [][TxConfigNext]_vars

SpecRx == Init /\ [][RxNext]_vars

SpecIO == Init /\ [][IONext]_vars

SpecBlocks == Init /\ [][BlocksNext]_vars

SpecValidation == Init /\ [][ValidationNext]_vars

SpecSap == Init /\ [][SapNext]_vars

SpecSapWire == Init /\ [][SapWireNext]_vars

SpecSapSenders == Init /\ [][SapSendersNext]_vars

SpecPtp == Init /\ [][PtpNext]_vars

SpecPtpManager == Init /\ [][PtpManagerNext]_vars

SpecSdp == Init /\ [][SdpNext]_vars

SpecRestart == Init /\ [][RestartNext]_vars

SpecAdmit == Init /\ [][AdmitNext]_vars

SpecRouterAccess == Init /\ [][RouterAccessNext]_vars

SpecLanes == Init /\ [][LanesNext]_vars

\* The listen thread is scheduled whenever recvfrom can return, and the steady
\* clock advances; no datagram is ever bound to arrive.
SpecSapLive == SpecSap /\ WF_vars(ListenLoop) /\ WF_vars(SapTick)

(***************************************************************************)
(* Router claims                                                           *)
(***************************************************************************)
Claimants(k) ==
    { id \in DOMAIN mappings_ : containsDeviceChannel(mappings_[id], k) }

\* C1: after any sequence of router add, update, remove and clear, every
\* device slot k in [0,128) is claimed by the mapping of at most one stream id.
C1_AtMostOneClaimant ==
    \A k \in DeviceChannels : Cardinality(Claimants(k)) <= 1

\* C2: a refused add leaves the owners array and the id-to-mapping map
\* exactly as they were before the call.
C2_RefusedAddLeavesRouterUnchanged ==
    [][ (routerOp'.op = "add" /\ ~routerOp'.ret)
        => (deviceChannelOwners_' = deviceChannelOwners_
            /\ mappings_' = mappings_) ]_vars

\* An add was refused while another stream owned device channels (the
\* overlap refusal of the [0,8) / [4,12) scenario, scaled to the model).
C2_Witness ==
    /\ routerOp.op = "add"
    /\ ~routerOp.ret
    /\ \E id \in DOMAIN mappings_ :
          /\ mappings_[id].channelMap = <<>>
          /\ mappings_[id].deviceChannelStart = 0
          /\ mappings_[id].deviceChannelCount = MaxCount
          /\ deviceChannelOwners_[1] = id

\* C10: every device channel claimed by a stored mapping is owned, in the
\* owners array, by that mapping's stream id.
C10_ClaimedSlotsAreOwned ==
    \A id \in DOMAIN mappings_ : \A k \in DeviceChannels :
        containsDeviceChannel(mappings_[id], k) => deviceChannelOwners_[k] = id

(***************************************************************************)
(* Ring claims                                                             *)
(***************************************************************************)
\* C3: between completed operations, the number of elements accepted by
\* write equals the number returned by read plus the value of available().
C3_Conservation ==
    (prod.pc = "idle" /\ cons.pc = "idle")
        => Len(written) = Len(readOut) + available

\* Both threads are between calls, elements have been read and unread
\* elements remain, with the write index wrapped behind the read index.
C3_Witness ==
    /\ prod.pc = "idle" /\ cons.pc = "idle"
    /\ Len(readOut) > 0
    /\ available > 0
    /\ writeIndex_ < readIndex_

WriteSlotsInFlight ==
    IF prod.pc = "copy"
    THEN { ChunkSlot(prod.writeIdx, prod.toWrite, i) : i \in 0..(prod.toWrite - 1) }
    ELSE {}

ReadSlotsInFlight ==
    IF cons.pc = "copy"
    THEN { ChunkSlot(cons.readIdx, cons.toRead, i) : i \in 0..(cons.toRead - 1) }
    ELSE {}

\* C4: with producer and consumer running concurrently, what read has
\* returned (the elements of a read in progress included) is a prefix of what
\* write has accepted or is copying, element for element, and no slot is read
\* while it is being written.
C4_StreamPreservation ==
    /\ Len(readOut) <= Len(written)
    /\ \A k \in 1..Len(readOut) : readOut[k] = written[k]
    /\ \A k \in 1..Len(cons.data) : cons.data[k] = Len(readOut) + k
    /\ WriteSlotsInFlight \cap ReadSlotsInFlight = {}

\* A read that straddled the end of the vector has completed while a write is
\* in progress, after the indices wrapped.
C4_Witness ==
    /\ Len(readOut) > capacity_
    /\ prod.pc = "copy"
    /\ prod.i > 0
    /\ cons.pc = "copy"

(***************************************************************************)
(* StreamManager claims                                                    *)
(***************************************************************************)
\* C5: when addStream or createTxStream returns the null id, whatever the
\* reason, the router's owners array and mapping table and the managed-stream
\* map are what they were before the call, and no worker thread or socket
\* made by the call is left.
C5_FailedAdmissionLeavesNoState ==
    [][(mgrOp'.op \in {"addStream", "createTxStream"} /\ ~mgrOp'.ok)
        => /\ deviceChannelOwners_' = deviceChannelOwners_
           /\ mappings_' = mappings_
           /\ streams_' = streams_
           /\ osLive' = osLive]_vars

\* The receivers whose thread writes input ring k, and the transmitters whose
\* thread reads output ring k
RxWriters(k) ==
    { id \in DOMAIN streams_ :
        ~streams_[id].isTransmit /\ k \in PipeRings(streams_[id]) }
TxReaders(k) ==
    { id \in DOMAIN streams_ :
        streams_[id].isTransmit /\ k \in PipeRings(streams_[id]) }

\* C6: whatever streams were added, re-mapped and removed, every device input
\* ring has at most one receiver thread writing it and every device output
\* ring has at most one transmitter thread reading it.
C6_OneThreadPerRing ==
    \A k \in DeviceChannels :
        /\ Cardinality(RxWriters(k)) <= 1
        /\ Cardinality(TxReaders(k)) <= 1

(***************************************************************************)
(* RTPTransmitter claims                                                   *)
(***************************************************************************)
\* C7: while the transmitter runs, every packet interval hands one RTP packet
\* to the socket, also when an output ring holds fewer than the samples of
\* one packet (the missing samples going out as silence).
C7_PacketEveryInterval ==
    [][(txIntervals' = txIntervals + 1) => (Len(txWire') = Len(txWire) + 1)]_vars

(***************************************************************************)
(* RTPReceiver claims                                                      *)
(***************************************************************************)
\* Packets missing between arrival i - 1 and arrival i, modulo 2^16
MissingBefore(i) == (rxSeqs[i] - rxSeqs[i - 1] - 1 + 65536) % 65536
Arrivals == 2..Len(rxSeqs)
\* Arrival i comes after a forward gap: at least one packet is missing and
\* the arrival is ahead of, not behind, the one expected.
ForwardGapAt(i) == MissingBefore(i) > 0 /\ MissingBefore(i) < 32768

\* C8: when every packet's sequence number is the previous one plus 1 modulo
\* 2^16 (65535 followed by 0 included) packetsLost is 0, and when the packets
\* have exactly one forward gap, of g missing packets, packetsLost is g.
C8_LossAccounting ==
    /\ (\A i \in Arrivals : MissingBefore(i) = 0) => rxStats.packetsLost = 0
    /\ \A i \in Arrivals :
          (/\ ForwardGapAt(i)
           /\ \A j \in Arrivals \ {i} : MissingBefore(j) = 0)
          => rxStats.packetsLost = MissingBefore(i)

\* The packets 65534, 65535, 0, 2: consecutive across the wrap, then one
\* packet missing
C8_Witness ==
    /\ rxSeqs = <<65534, 65535, 0, 2>>
    /\ rxStats.packetsLost = 1

(***************************************************************************)
(* AES67IOHandler claims                                                   *)
(***************************************************************************)
\* C9: one input callback raises the input-underrun counter by exactly 1 when
\* at least one of the 128 input rings returned fewer frames than requested,
\* and leaves it alone otherwise.
C9_OneUnderrunPerCallback ==
    [][(ioCallbacks' = ioCallbacks + 1)
        => (inputUnderruns_' =
              inputUnderruns_ + (IF ioLast'.shortReads > 0 THEN 1 ELSE 0))]_vars

\* Two callbacks in a row found every ring short, and two underruns are counted
C9_Witness ==
    /\ ioCallbacks = 2
    /\ ioLast.shortReads = kNumChannels
    /\ inputUnderruns_ = 2

(***************************************************************************)
(* Locking claims                                                          *)
(***************************************************************************)
\* The mutex of a call trace is held at position i: more "lock" than "unlock"
\* events precede it
HeldAt(trace, i) ==
    Cardinality({ j \in 1..(i - 1) : trace[j] = "lock" })
        > Cardinality({ j \in 1..(i - 1) : trace[j] = "unlock" })

ManagerNotifications ==
    {"notifyStreamAdded", "notifyStreamRemoved", "notifyStreamStatusChanged"}
PipelineIO == {"start", "stop"}

\* C11: whenever the manager invokes its stream-added, stream-removed or
\* status-changed observer, the invoking thread holds none of the manager's
\* mutexes: no notification of the last call lies between a "lock" and its
\* "unlock"
C11_CallbacksOutsideMutex ==
    \A i \in DOMAIN mgrTrace :
        mgrTrace[i] \in ManagerNotifications => ~HeldAt(mgrTrace, i)

\* C12: the admission mutex is never held while a pipeline is started (socket
\* opened, worker thread created) or stopped (worker joined, socket closed)
C12_NoPipelineIOUnderMutex ==
    \A i \in DOMAIN mgrTrace :
        mgrTrace[i] \in PipelineIO => ~HeldAt(mgrTrace, i)

(***************************************************************************)
(* SAP listener claims                                                     *)
(***************************************************************************)
\* The cached announcement of hash h has not been refreshed for more than the
\* timeout
Stale(h) ==
    /\ h \in DOMAIN announcements_
    /\ announcements_[h] > timeout

\* The entry of hash h is gone and the deletion callback was invoked for it
Expired(h) == h \notin DOMAIN announcements_ /\ h \in sapDeleted

\* C13: an accepted announce that is not refreshed is, once more than ten
\* minutes have elapsed, removed from the cache with the deletion callback
\* fired for it: while the listener runs, a stale entry leads to its expiry
\* (unless a further announce refreshes it or the listener is stopped)
C13_StaleEntryExpires ==
    \A h \in SapHashes :
        (sapRunning /\ Stale(h))
            ~> (Expired(h) \/ (h \in DOMAIN announcements_ /\ ~Stale(h)) \/ ~sapRunning)

(***************************************************************************)
(* Router claims: placement, removal, update, validation                   *)
(***************************************************************************)
\* Slots s..s+n-1 exist and are all null
AllNull(s, n) ==
    /\ s + n <= kMaxDeviceChannels
    /\ \A k \in s..(s + n - 1) : deviceChannelOwners_[k] = NullID

\* C14: for a request of n >= 1 channels, findContiguousBlock (and so the
\* mapping createDefaultMapping returns) starts at the smallest s such that
\* slots s..s+n-1 are all null, and nothing is returned exactly when no such
\* run exists
C14_SmallestFreeBlock ==
    routerOp.op = "createDefaultMapping" =>
        LET n == routerOp.numChannels
            s == routerOp.mapping.deviceChannelStart
        IN  /\ routerOp.ret <=> \E k \in DeviceChannels : AllNull(k, n)
            /\ routerOp.ret =>
                  /\ s \in DeviceChannels
                  /\ AllNull(s, n)
                  /\ \A k \in 0..(s - 1) : ~AllNull(k, n)
                  /\ routerOp.mapping.deviceChannelCount = n
                  /\ routerOp.mapping.channelMap = <<>>

\* Streams hold [0,8) and [16,24), the block between them has been released,
\* and a request for 8 channels is placed at 8
C14_Witness ==
    /\ routerOp.op = "createDefaultMapping"
    /\ routerOp.ret
    /\ routerOp.numChannels = BlockChannels
    /\ routerOp.mapping.deviceChannelStart = BlockChannels
    /\ Cardinality(DOMAIN mappings_) = 2
    /\ \A k \in 0..(BlockChannels - 1) :
          /\ deviceChannelOwners_[k] # NullID
          /\ deviceChannelOwners_[BlockChannels + k] = NullID
          /\ deviceChannelOwners_[2 * BlockChannels + k] # NullID

\* On a full router a request for one channel yields nothing
C14_FullRouterRefuses ==
    /\ routerOp.op = "createDefaultMapping"
    /\ ~routerOp.ret
    /\ routerOp.numChannels = 1
    /\ \A k \in DeviceChannels : deviceChannelOwners_[k] # NullID

\* C15: after removeMapping(id) succeeds no owners slot holds id and id is
\* absent from the map, while every slot held by another stream and every
\* other stream's mapping is as it was
C15_RemoveReleasesOnlyOwn ==
    [][(routerOp'.op = "remove" /\ routerOp'.ret) =>
          LET id == routerOp'.id
          IN  /\ \A k \in DeviceChannels : deviceChannelOwners_'[k] # id
              /\ id \notin DOMAIN mappings_'
              /\ \A k \in DeviceChannels :
                    deviceChannelOwners_[k] # id
                        => deviceChannelOwners_'[k] = deviceChannelOwners_[k]
              /\ DOMAIN mappings_' = (DOMAIN mappings_) \ {id}
              /\ \A other \in DOMAIN mappings_' :
                    mappings_'[other] = mappings_[other]]_vars

\* A stream has been removed while another stream still holds its slots
C15_Witness ==
    /\ routerOp.op = "remove"
    /\ routerOp.ret
    /\ \E other \in DOMAIN mappings_ :
          /\ other # routerOp.id
          /\ \E k \in DeviceChannels : deviceChannelOwners_[k] = other

\* The device slots mapping m claims
ClaimedSlots(m) == { k \in DeviceChannels : containsDeviceChannel(m, k) }

\* C16: updateMapping(m) succeeds if and only if m is valid and every slot it
\* claims is null or owned by m's own id, and after a successful update the
\* slots owned by that id are exactly the slots m claims
C16_UpdateIgnoresOwnSlots ==
    \A m \in MappingInputs :
        LET r == updateMapping(deviceChannelOwners_, mappings_, m)
        IN  /\ r.ret <=>
                  /\ validateMapping(m)
                  /\ \A k \in ClaimedSlots(m) :
                        deviceChannelOwners_[k] \in {NullID, m.streamID}
            /\ r.ret =>
                  { k \in DeviceChannels : r.owners[k] = m.streamID }
                      = ClaimedSlots(m)

\* C17: isValid() is true of a mapping with a non-null id, non-zero channel
\* counts and device start + count <= 128 (its channel map empty or of the
\* stream's channel count), and false of a mapping whose device range exceeds
\* 128 channels or whose channel count is zero
C17_IsValidAcceptsWellFormed ==
    routerOp.op = "isValid" =>
        LET m == routerOp.mapping
        IN  /\ (/\ m.streamID # NullID
                /\ m.streamChannelCount # 0
                /\ m.deviceChannelCount # 0
                /\ m.deviceChannelStart + m.deviceChannelCount <= kMaxDeviceChannels
                /\ m.channelMap = <<>> \/ Len(m.channelMap) = m.streamChannelCount)
                  => routerOp.ret
            /\ (\/ m.deviceChannelStart + m.deviceChannelCount > kMaxDeviceChannels
                \/ m.streamChannelCount = 0
                \/ m.deviceChannelCount = 0)
                  => ~routerOp.ret

\* The mapping invariant of the data model: the permutation is empty, or has
\* exactly C entries, each in [0,128), no two equal; a sequential mapping has
\* S + C <= 128
MappingInvariant(m) ==
    IF m.channelMap = <<>>
    THEN m.deviceChannelStart + m.streamChannelCount <= kMaxDeviceChannels
    ELSE /\ Len(m.channelMap) = m.streamChannelCount
         /\ \A i \in 1..Len(m.channelMap) : m.channelMap[i] \in DeviceChannels
         /\ \A i, j \in 1..Len(m.channelMap) :
               i # j => m.channelMap[i] # m.channelMap[j]

\* C18: every mapping the router's add or update has accepted satisfies the
\* mapping invariant
C18_AcceptedMappingsWellFormed ==
    \A id \in DOMAIN mappings_ : MappingInvariant(mappings_[id])

(***************************************************************************)
(* Ring claims: the full ring and its capacity                             *)
(***************************************************************************)
\* Elements the ring holds: accepted by completed writes and not yet returned
\* by completed reads
Stored == Len(written) - Len(readOut)

\* C19: when the ring is full, write(n) for any n >= 1 returns 0 and leaves
\* the write cursor, the stored elements (and, for its part, the read
\* cursor) unchanged; once a read of at least one element has completed,
\* write(1) returns 1
C19_FullRingRefusesWrite ==
    [][(prod.pc = "idle" /\ Stored = capacity) =>
          /\ isFull
          /\ \A count \in 1..(RingCapacityArg + 1) :
                Min(count, getAvailableWrite(writeIndex_, readIndex_)) = 0
          /\ prod' = ProdIdle
          /\ writeIndex_' = writeIndex_
          /\ buffer_' = buffer_
          /\ written' = written
          /\ readIndex_' # readIndex_
                => Min(1, getAvailableWrite(writeIndex_', readIndex_')) = 1]_vars

\* The ring is full again after elements were read from it, and the producer
\* is about to call write
C19_Witness ==
    /\ prod.pc = "idle"
    /\ Stored = capacity
    /\ readOut # <<>>
    /\ Len(written) < MaxWritten

\* C20: a ring constructed with capacity argument N reports N-1 writable
\* elements when empty, N-1-k writable elements with k stored, and is full
\* once N-1 elements are stored
C20_OneSlotReserved ==
    (prod.pc = "idle" /\ cons.pc = "idle") =>
        /\ availableWrite = RingCapacityArg - 1 - Stored
        /\ isFull <=> Stored = RingCapacityArg - 1

(***************************************************************************)
(* AES67IOHandler claims: the frame ceiling                                *)
(***************************************************************************)
\* C21: a host callback of more than 512 frames reads no ring and counts a
\* fault: the rings are as they were and the underrun counter has increased
C21_OversizeCallbackCountsFault ==
    [][(/\ ioCallbacks' = ioCallbacks + 1
        /\ ioLast'.channelCount = kNumChannels
        /\ ioLast'.frameCount > kMaxFramesPerBuffer)
        => (/\ inputBuffers_' = inputBuffers_
            /\ inputUnderruns_' > inputUnderruns_)]_vars

\* C22: a received packet whose payload holds no whole frame, or more than 512
\* frames, adds one to the malformed-packet counter and writes no ring
C22_BadFrameCountIsMalformed ==
    [][(/\ rxStats'.packetsReceived = rxStats.packetsReceived + 1
        /\ LET frameCount == DecodedFrameCount(rxLast'.encoding, rxLast'.payloadSize)
           IN  frameCount = 0 \/ frameCount > 512)
        => (/\ rxStats'.malformedPackets = rxStats.malformedPackets + 1
            /\ inputBuffers_' = inputBuffers_)]_vars

\* C23: however many times stop() is called, on a receiver never started,
\* running or already stopped, every call that has returned leaves the
\* receiver stopped (not running, no thread, no session, not connected), and
\* the thread has been joined and the session destroyed at most once
C23_StopIdempotent ==
    /\ rcvJoins <= 1
    /\ rcvCloses <= 1
    /\ (rcvCaller = "idle" /\ rcvStops >= 1)
        => (/\ ~rcvRunning
            /\ receiveThread_ = "none"
            /\ ~rtpSession_
            /\ ~connected_)

\* stop() has returned MaxStops times since a start(), after one join and
\* one destroy
C23_Witness ==
    /\ rcvCaller = "idle"
    /\ rcvStops = MaxStops
    /\ rcvJoins = 1
    /\ rcvCloses = 1

\* C24: after stop() on a running receiver the receive loop terminates and
\* stop() returns; stop() is past its join only once the receive thread has
\* been joined, and the session is open for as long as the loop is running
C24_StopJoinsThenCloses ==
    /\ [](receiveThread_ \in {"loop", "packet"} => rtpSession_)
    /\ [](rcvCaller = "destroy" => receiveThread_ = "none")
    /\ [][rcvStops' = rcvStops + 1 => receiveThread_ = "none"]_vars
    /\ (rcvCaller = "join" ~> receiveThread_ \in {"exited", "none"})
    /\ (rcvCaller = "join" ~> rcvCaller = "idle")

\* stop() on a running receiver has returned: one join, then one destroy
C24_Witness ==
    /\ rcvCaller = "idle"
    /\ rcvStops = 1
    /\ rcvJoins = 1
    /\ rcvCloses = 1
    /\ ~rtpSession_

\* C25: isConnected() returns true only if processPacket accepted a packet
\* less than 1000 ms before the call; with no packet in the last second, or
\* none ever, it returns false
C25_ConnectedOnlyWithinASecond ==
    [][(rcvQuery'.flip # rcvQuery.flip /\ rcvQuery'.ret)
        => rcvSinceValid < kConnectedTimeoutMs]_vars

\* isConnected() has returned true, and has returned false on a receiver
\* whose connected_ flag is set but whose last packet is a second old
C25_WitnessTrue == rcvQuery.ret /\ rcvSinceValid < kConnectedTimeoutMs

\* C26: of two packets the running transmitter hands to the socket one after
\* the other, the later has the earlier's sequence number plus 1 modulo 2^16
\* and the earlier's timestamp plus samplesPerPacket modulo 2^32
C26_ConsecutivePackets ==
    \A i \in 2..Len(txWire) :
        LET earlier == txWire[i - 1]
            later == txWire[i]
            lo == earlier.timestamp.lo + SamplesPerPacket
        IN  /\ later.sequenceNumber = (earlier.sequenceNumber + 1) % 65536
            /\ later.timestamp.lo = lo % 65536
            /\ later.timestamp.hi = (earlier.timestamp.hi + lo \div 65536) % 65536

\* Two packets in a row on either side of the wrap of both counters
C26_Witness ==
    /\ Len(txWire) >= 2
    /\ txWire[1].sequenceNumber = 65535
    /\ txWire[2].sequenceNumber = 0
    /\ txWire[1].timestamp.hi = 65535
    /\ txWire[2].timestamp.hi = 0

\* C27: a transmitter constructed from a descriptor with packet time ptime
\* (in ms) sends every ptime ms, and each packet carries
\* sampleRate / 1000 * ptime samples per channel
C27_PtimeSetsIntervalAndSamples ==
    /\ txConfig.packetIntervalUs = txConfig.ptime * 1000
    /\ txConfig.samplesPerPacket = (txConfig.sampleRate \div 1000) * txConfig.ptime

TracePos(e) ==
    IF \E i \in DOMAIN mgrTrace : mgrTrace[i] = e
    THEN CHOOSE i \in DOMAIN mgrTrace : mgrTrace[i] = e
    ELSE 0

\* C29: a removeStream(id) that finds the stream stops its pipeline, then
\* releases its router slots, then deletes the managed record, then publishes
\* stream-removed: the worker has been joined before the slots are free, and
\* the notification comes after the record is gone
C29_RemoveOrder ==
    (mgrOp.op = "removeStream" /\ mgrOp.ok)
        => (/\ TracePos("removeMapping") > TracePos("stop")
            /\ TracePos("erase") > TracePos("removeMapping")
            /\ TracePos("notifyStreamRemoved") > TracePos("erase"))

\* removeStream has removed a stream whose pipeline was running
C29_Witness ==
    /\ mgrOp.op = "removeStream"
    /\ mgrOp.ok
    /\ TracePos("stop") > 0
    /\ streams_ = <<>>

(***************************************************************************)
(* SAP wire claims                                                         *)
(***************************************************************************)
\* A complete delete message: version 1, T set, E and C clear, followed by
\* its origin, authentication data, payload type and payload
WellFormedDelete(d) ==
    /\ ~d.short
    /\ (d.byte0 \div 32) % 8 = 1
    /\ Bit(d.byte0, 2)
    /\ ~Bit(d.byte0, 1)
    /\ ~Bit(d.byte0, 0)
    /\ d.body = "full"

C31_SourcesKeptApart ==
    [][(/\ sapLast'.flip # sapLast.flip
        /\ Classify(sapLast'.dgram).kind \in {"announce", "delete"}
        /\ Classify(sapLast'.dgram).hash \in DOMAIN announcements_
        /\ sapOrigins[Classify(sapLast'.dgram).hash] # sapLast'.sourceIP)
        => (/\ Classify(sapLast'.dgram).hash \in DOMAIN announcements_'
            /\ sapOrigins'[Classify(sapLast'.dgram).hash]
                  = sapOrigins[Classify(sapLast'.dgram).hash])]_vars

\* C32: getTimeForDomain(d) returns the local time plus the domain's offset
\* when the offsets are enabled and d has a locked clock, and the plain local
\* time when the offsets are disabled, d has no clock or its clock is not
\* locked; the offset of a clock that was never locked reads zero
C32_OffsetOnlyWhenLocked ==
    /\ [][ptpQuery'.pc = "getTime" /\ ptpQuery.pc = "idle"
            => /\ globalEnabled_
               /\ ptpQuery'.domain \in DOMAIN clocks_
               /\ ptpClocks[clocks_[ptpQuery'.domain]].locked_]_vars
    /\ [][ptpQuery'.flip # ptpQuery.flip /\ ptpQuery.pc = "getTime"
            => /\ ptpQuery.domain \in DOMAIN clocks_
               /\ ptpClocks[clocks_[ptpQuery.domain]].locked_
               /\ ptpQuery'.ret = ptpQuery.localTime
                                   + ptpClocks[clocks_[ptpQuery.domain]].offsetNs_]_vars
    /\ [][ptpQuery'.flip # ptpQuery.flip /\ ptpQuery.pc = "idle"
            => /\ ptpQuery'.ret = ptpQuery'.localTime
               /\ \/ ~globalEnabled_
                  \/ ptpQuery'.domain \notin DOMAIN clocks_
                  \/ ~ptpClocks[clocks_[ptpQuery'.domain]].locked_]_vars
    /\ [](\A c \in ClockObjects : ~ptpClocks[c].locked_ => ptpClocks[c].offsetNs_ = 0)

\* A locked domain was asked for the time and the offset was added
C32_Witness ==
    /\ ptpQuery.pc = "idle"
    /\ ptpQuery.ret = ptpQuery.localTime + LockedOffsetNs

\* C33: the ptpThread threads of the clocks of one domain number at most one
C33_OneWorkerPerDomain ==
    \A domain \in PtpDomains : WorkerThreads(domain) <= 1

\* C34: for every descriptor that passes validation, parseString of the text
\* generate wrote succeeds and returns the descriptor, field for field
C34_GenerateParseRoundTrip ==
    sdpTrip.text # <<>>
        => sdpTrip.parsed.ok /\ sdpTrip.parsed.session = sdpTrip.session

\* C35: every start() clears the statistics and the sequence tracking, and the
\* first packet processed after a start() adds nothing to packetsLost
C35_StartClearsStatistics ==
    /\ [][rcvRunning' /\ ~rcvRunning
            => /\ rxStats' = [packetsReceived |-> 0, packetsLost |-> 0,
                              bytesReceived |-> 0, malformedPackets |-> 0]
               /\ lastSequenceNumber_' = 0]_vars
    /\ [][rcvFresh /\ ~rcvFresh'
            => rxStats'.packetsLost = 0 /\ rxStats'.packetsReceived = 1]_vars

\* C36: the block createDefaultMapping selected for a caller of addStream(sdp)
\* stays free until that caller inserts it, and the insertion succeeds
C36_SelectedBlockStaysFree ==
    /\ [](\A t \in Callers :
            autoSelected[t] # <<>>
                => \A k \in autoSelected[t][2].deviceChannelStart ..
                            (autoSelected[t][2].deviceChannelStart
                             + autoSelected[t][2].deviceChannelCount - 1) :
                        deviceChannelOwners_[k] = NullID)
    /\ [][\A t \in Callers :
            autoSelected[t] # <<>> /\ autoSelected'[t] = <<>> => mgrOp'.ok]_vars

\* C37: when updateMapping(id, m) returns, the router, the manager's record
\* and the pipeline of every stream hold the same mapping; when it returns
\* false they hold the mappings they held before the call and every pipeline
\* that was running still runs
C37_UpdateMappingAllOrNothing ==
    [][(mgrOp'.op = "updateMapping" /\ apiCalls' # apiCalls)
        => /\ \A id \in DOMAIN streams_ :
                /\ id \in DOMAIN streams_' /\ id \in DOMAIN mappings_'
                /\ mappings_'[id] = streams_'[id].mapping
                /\ streams_'[id].pipe.start = streams_'[id].mapping.deviceChannelStart
           /\ ~mgrOp'.ok
                => /\ mappings_' = mappings_
                   /\ \A id \in DOMAIN streams_ :
                        /\ streams_'[id].mapping = streams_[id].mapping
                        /\ streams_'[id].pipe.start = streams_[id].pipe.start
                        /\ streams_[id].pipe.running => streams_'[id].pipe.running]_vars

\* C38: every device slot with an owner is owned by an id that is in the map
\* and whose stored mapping claims the slot
C38_OwnersNameClaimants ==
    \A k \in DeviceChannels :
        deviceChannelOwners_[k] # NullID
            => /\ deviceChannelOwners_[k] \in DOMAIN mappings_
               /\ containsDeviceChannel(mappings_[deviceChannelOwners_[k]], k)

\* C39: add, update, the overlap test, the overlapping-streams query and the
\* owner lookup touch deviceChannelOwners_ only at indexes in [0,128)
C39_OwnerIndexesInRange ==
    routerOp.op \in {"add", "update", "hasOverlap", "getOverlappingStreams",
                     "getStreamForDeviceChannel"}
        => routerOp.indexes \subseteq DeviceChannels


\* C40: inter-channel skew within a stream is never persistent.  In every
\* callback that ran while the receive thread was between two packets, the
\* samples processInput returns at the same frame position for two of the
\* stream's channels come from the same frame of the same packet, whenever
\* both are samples of the stream and not padding.
C40_ChannelsStayAligned ==
    ~laneOut.midCopy =>
        \A a, b \in MappedChannels :
            \A i \in 1..Len(laneOut.outputData[a]) :
                (/\ laneOut.outputData[a][i] # Silence
                 /\ laneOut.outputData[b][i] # Silence)
                => laneOut.outputData[a][i] = laneOut.outputData[b][i]

====
